---- MODULE Spec2Model ----
(***************************************************************************)
(* Model of the Villages event scraper: the field extractor, the venue     *)
(* normaliser and the batch projector of src/src/event_processor.py, the   *)
(* renderers of src/src/output_formatter.py, the configuration readers of  *)
(* src/src/config_loader.py, the URL builders of src/src/config.py and     *)
(* main of src/villages_events.py.                                         *)
(*                                                                         *)
(* JSON values are tagged pairs <<tag, payload>>.  A string is a sequence  *)
(* of one-character strings, so that splitting, substring containment,    *)
(* quoting and escaping are computed and not assumed.                      *)
(***************************************************************************)
EXTENDS Integers, Sequences, FiniteSets, TLC

VARIABLES
    pc,               \* position of the running call
    api_response,     \* argument of process_events
    output_fields,    \* EventProcessor.output_fields (the FieldSet)
    venue_mappings,   \* EventProcessor.venue_mappings, in iteration order
    format_type,      \* args.format as main hands it to the renderer
    event,            \* argument of extract_field
    field_path,       \* argument of extract_field
    extracted,        \* what extract_field returned
    venue,            \* argument of abbreviate_venue
    abbreviated,      \* what abbreviate_venue returned
    idx,              \* position in the events list (1-based)
    fi,               \* position in output_fields (1-based)
    event_data,       \* the dict under construction, in insertion order
    processed_events, \* the list process_events returns
    warnings,         \* indices logged by logger.warning, in order
    stdout,           \* what main printed
    exit_code,        \* what main returned
    formatted,        \* what format_events returned or raised
    yaml_config,      \* what ConfigLoader.load_config returned
    argv,             \* the command line main parses
    args,             \* the namespace parse_args returned
    network,          \* the requests main has made, in order
    session,          \* state of the SessionManager main opens
    files,            \* the configuration files on disk, by path
    calendar_url,     \* what Config.get_calendar_url returned
    api_url           \* what Config.get_api_url returned

vars == <<pc, api_response, output_fields, venue_mappings, format_type, event,
          field_path, extracted, venue, abbreviated, idx, fi, event_data,
          processed_events, warnings, stdout, exit_code, formatted,
          yaml_config, argv, args, network, session, files, calendar_url,
          api_url>>

\* The variables only main's front half and the renderer write.
mainVars == <<formatted, yaml_config, argv, args, network, session, files,
              calendar_url, api_url>>

----------------------------------------------------------------------------
(* Values *)

Str(s)  == <<"str", s>>
Num(n)  == <<"num", n>>
Bool(b) == <<"bool", b>>
List(l) == <<"list", l>>
Map(m)  == <<"map", m>>
Null    == <<"null", 0>>

IsStr(v)  == v[1] = "str"
IsNum(v)  == v[1] = "num"
IsBool(v) == v[1] = "bool"
IsList(v) == v[1] = "list"
IsMap(v)  == v[1] = "map"
IsNull(v) == v[1] = "null"

EmptyStr == Str(<<>>)
EmptyMap == Map(<<>>)

\* A register that holds no value yet.
Unset == <<"unset", 0>>

\* Python truthiness of a JSON value.
Truthy(v) ==
    CASE IsStr(v)  -> v[2] # <<>>
      [] IsNum(v)  -> v[2] # 0
      [] IsBool(v) -> v[2]
      [] IsList(v) -> v[2] # <<>>
      [] IsMap(v)  -> DOMAIN v[2] # {}
      [] OTHER     -> FALSE

----------------------------------------------------------------------------
(* Strings of the program *)

sLocation      == <<"l","o","c","a","t","i","o","n">>
sTitle         == <<"t","i","t","l","e">>
sEvents        == <<"e","v","e","n","t","s">>
sData          == <<"d","a","t","a">>
sLocationTitle == sLocation \o <<".">> \o sTitle
sA  == <<"a">>
sB  == <<"b">>
sAB == <<"a","b">>
sX  == <<"x">>
sY  == <<"y">>

----------------------------------------------------------------------------
(* extract_field *)

RECURSIVE SplitFrom(_, _, _, _)
\* str.split('.') from position i on, cur the segment being read.
SplitFrom(s, i, cur, acc) ==
    IF i > Len(s) THEN Append(acc, cur)
    ELSE IF s[i] = "." THEN SplitFrom(s, i + 1, <<>>, Append(acc, cur))
    ELSE SplitFrom(s, i + 1, Append(cur, s[i]), acc)

\* The slip that takes the empty path for a path of no segments.
SplitNoSegments(s) == IF s = <<>> THEN <<>> ELSE SplitFrom(s, 1, <<>>, <<>>)

Split(s) == SplitFrom(s, 1, <<>>, <<>>)

RECURSIVE WalkFailsOffMap(_, _, _)
\* The walk that indexes whatever it is handed: a value that is not a map
\* raises.
WalkFailsOffMap(current, parts, i) ==
    IF i > Len(parts)
    THEN (IF IsNull(current) THEN EmptyStr ELSE current)
    ELSE IF ~IsMap(current) THEN <<"TypeError", 0>>
    ELSE IF parts[i] \notin DOMAIN current[2] THEN EmptyStr
    ELSE WalkFailsOffMap(current[2][parts[i]], parts, i + 1)

RECURSIVE Walk(_, _, _)
\* The loop of extract_field from part i on, and its return statement.
Walk(current, parts, i) ==
    IF i > Len(parts)
    THEN (IF IsNull(current) THEN EmptyStr ELSE current)
    ELSE IF ~IsMap(current) THEN EmptyStr
    ELSE IF parts[i] \notin DOMAIN current[2] THEN EmptyStr
    ELSE Walk(current[2][parts[i]], parts, i + 1)

RECURSIVE WalkKeepNull(_, _, _)
WalkKeepNull(current, parts, i) ==
    IF i > Len(parts) THEN current
    ELSE IF ~IsMap(current) THEN EmptyStr
    ELSE IF parts[i] \notin DOMAIN current[2] THEN EmptyStr
    ELSE WalkKeepNull(current[2][parts[i]], parts, i + 1)

\* The slip that returns the leaf without replacing null.
ExtractFieldKeepNull(ev, path) == WalkKeepNull(ev, Split(path), 1)

\* The slip `return current or ""`: every falsy leaf becomes "".
ExtractFieldFalsy(ev, path) ==
    LET r == Walk(ev, Split(path), 1) IN IF Truthy(r) THEN r ELSE EmptyStr

ExtractField(ev, path) == Walk(ev, Split(path), 1)

----------------------------------------------------------------------------
(* Inputs of the extractor *)

ExtractEvents ==
    { Map((sLocation :> Map(sTitle :> Str(sAB))) @@ (sTitle :> Str(sA))),
      EmptyMap,
      Map((sLocation :> Map(sTitle :> Num(5))) @@ (sTitle :> Null)),
      Map((sLocation :> Str(sAB)) @@ (sTitle :> Num(0)) @@ (<<>> :> Str(sB))),
      Str(sAB),
      Map((sLocation :> Map(sTitle :> List(<<Str(sA)>>))) @@ (sTitle :> Bool(FALSE))),
      Map((sTitle :> Map(<<>> :> Null)) @@ (<<>> :> Null)),
      List(<<Str(sTitle)>>) }

ExtractPaths ==
    { <<>>, sTitle, sLocation, sLocationTitle, sTitle \o <<".">>, <<".">>,
      sTitle \o <<".">> \o sTitle, sLocationTitle \o <<".">> \o sTitle }

----------------------------------------------------------------------------
(* Specification of a call of extract_field *)

IdleMain ==
    /\ formatted = Unset /\ yaml_config = EmptyMap /\ argv = <<>>
    /\ args = Unset /\ network = <<>> /\ session = "none"
    /\ files = <<>> /\ calendar_url = <<>> /\ api_url = <<>>

Idle ==
    /\ IdleMain
    /\ api_response = EmptyMap /\ output_fields = <<>>
    /\ format_type = "" /\ idx = 0 /\ fi = 0 /\ event_data = <<>>
    /\ processed_events = <<>> /\ warnings = <<>> /\ stdout = <<>>
    /\ exit_code = -1

InitExtract ==
    /\ Idle
    /\ pc = "extract_field"
    /\ event \in ExtractEvents
    /\ field_path \in ExtractPaths
    /\ extracted = Unset
    /\ venue_mappings = <<>>
    /\ venue = Unset /\ abbreviated = Unset

CallExtractField ==
    /\ pc = "extract_field"
    /\ extracted' = ExtractField(event, field_path)
    /\ pc' = "returned"
    /\ UNCHANGED mainVars
    /\ UNCHANGED <<api_response, output_fields, venue_mappings, format_type,
                   event, field_path, venue, abbreviated, idx, fi, event_data,
                   processed_events, warnings, stdout, exit_code>>

NextExtract == CallExtractField

SpecExtract == InitExtract /\ [][NextExtract]_vars

----------------------------------------------------------------------------
(* The reference walk of a path, stated without the loop *)

RECURSIVE Join(_)
\* The segments written back with a dot between neighbours.
Join(segs) ==
    IF Len(segs) = 1 THEN segs[1] ELSE segs[1] \o <<".">> \o Join(Tail(segs))

RECURSIVE RefNode(_, _, _)
\* The node k segments below the root, when the first k segments resolve.
RefNode(ev, segs, k) ==
    IF k = 0 THEN ev ELSE RefNode(ev, segs, k - 1)[2][segs[k]]

RECURSIVE RefResolves(_, _, _)
\* The first k segments each name a key of a map.
RefResolves(ev, segs, k) ==
    \/ k = 0
    \/ /\ RefResolves(ev, segs, k - 1)
       /\ IsMap(RefNode(ev, segs, k - 1))
       /\ segs[k] \in DOMAIN RefNode(ev, segs, k - 1)[2]

RefExtract(ev, segs) ==
    IF ~RefResolves(ev, segs, Len(segs)) THEN EmptyStr
    ELSE IF IsNull(RefNode(ev, segs, Len(segs))) THEN EmptyStr
    ELSE RefNode(ev, segs, Len(segs))

\* C3: extract_field always returns, and what it returns is the reference
\* walk over the dot-separated segments of the path: the empty string when a
\* node on the way is no map or lacks the segment's key, the empty string for
\* a null leaf, and otherwise the leaf unchanged, whatever its type.
C3_ExtractIsReferenceWalk ==
    pc = "returned" =>
        LET segs == Split(field_path) IN
        /\ Len(segs) >= 1
        /\ \A i \in 1..Len(segs) : \A j \in 1..Len(segs[i]) : segs[i][j] # "."
        /\ Join(segs) = field_path
        /\ extracted # Unset
        /\ extracted = RefExtract(event, segs)

\* A falsy non-string leaf (the number 0) came back unchanged.
C3_Witness ==
    /\ pc = "returned" /\ field_path = sTitle
    /\ IsMap(event) /\ extracted = Num(0)

\* C4 as stated: the empty path yields the event itself.
C4_EmptyPathYieldsEvent ==
    (pc = "returned" /\ field_path = <<>>) => extracted = event

\* C4, amended: the empty path is one segment, the empty key. extract_field
\* yields the value the event holds under the key "" (the empty string when
\* that value is null) when the event is a map with that key, and the empty
\* string otherwise.
C4_EmptyPathLooksUpEmptyKey ==
    (pc = "returned" /\ field_path = <<>>) =>
        extracted =
            IF IsMap(event) /\ <<>> \in DOMAIN event[2]
            THEN (IF IsNull(event[2][<<>>]) THEN EmptyStr ELSE event[2][<<>>])
            ELSE EmptyStr

\* The empty path found the value stored under the empty key.
C4_Witness ==
    /\ pc = "returned" /\ field_path = <<>>
    /\ IsMap(event) /\ extracted = Str(sB) /\ extracted # event

----------------------------------------------------------------------------
(* abbreviate_venue *)

RECURSIVE FindFrom(_, _, _)
\* `needle in hay` for two strings, scanning start positions from i on.
FindFrom(hay, needle, i) ==
    IF i + Len(needle) - 1 > Len(hay) THEN FALSE
    ELSE IF SubSeq(hay, i, i + Len(needle) - 1) = needle THEN TRUE
    ELSE FindFrom(hay, needle, i + 1)

\* The operand types for which `keyword in venue` is defined.
IsContainer(v) == IsStr(v) \/ IsList(v) \/ IsMap(v)

\* `keyword in venue`: substring of a string, element of a list, key of a map.
PyIn(keyword, v) ==
    CASE IsStr(v)  -> FindFrom(v[2], keyword, 1)
      [] IsList(v) -> \E j \in 1..Len(v[2]) : v[2][j] = Str(keyword)
      [] IsMap(v)  -> keyword \in DOMAIN v[2]

\* The exception `keyword in venue` raises for a number or a boolean.
TypeError == <<"TypeError", 0>>

RECURSIVE ScanMappings(_, _, _)
\* The for loop over venue_mappings.items() from item i on.
ScanMappings(mappings, v, i) ==
    IF i > Len(mappings) THEN v
    ELSE IF ~IsContainer(v) THEN TypeError
    ELSE IF PyIn(mappings[i][1], v) THEN mappings[i][2]
    ELSE ScanMappings(mappings, v, i + 1)

RECURSIVE ScanMappingsBack(_, _, _)
ScanMappingsBack(mappings, v, i) ==
    IF i < 1 THEN v
    ELSE IF ~IsContainer(v) THEN TypeError
    ELSE IF PyIn(mappings[i][1], v) THEN mappings[i][2]
    ELSE ScanMappingsBack(mappings, v, i - 1)

\* The variant that leaves a string alone once it is an abbreviation of
\* the mapping.
AbbreviateVenueKeepsAbbreviations(mappings, v) ==
    IF ~Truthy(v) THEN v
    ELSE IF \E i \in 1..Len(mappings) : mappings[i][2] = v THEN v
    ELSE ScanMappings(mappings, v, 1)

\* The slip that lets a later keyword override an earlier one.
AbbreviateVenueLastWins(mappings, v) ==
    IF ~Truthy(v) THEN v ELSE ScanMappingsBack(mappings, v, Len(mappings))

AbbreviateVenue(mappings, v) ==
    IF ~Truthy(v) THEN v ELSE ScanMappings(mappings, v, 1)

----------------------------------------------------------------------------
(* Specification of a call of abbreviate_venue on a string.  The venue        *)
(* alphabet holds a letter in both cases: "A" is no occurrence of "a".        *)

MaxVenueLen == 2
MaxMappings == 2

VenueChars == {"a", "b", "A"}

VenueStrings == UNION { [1..k -> VenueChars] : k \in 0..MaxVenueLen }

\* keyword -> abbreviation items a mapping is made of.
MappingItems ==
    { <<sA, Str(sX)>>, <<sAB, Str(sY)>>, <<sB, Str(sA)>>, <<<<>>, Str(sB)>> }

\* Ordered mappings: a dict holds each keyword once.
VenueMappings ==
    { m \in UNION { [1..k -> MappingItems] : k \in 0..MaxMappings } :
        \A i, j \in DOMAIN m : i # j => m[i][1] # m[j][1] }

InitVenue ==
    /\ Idle
    /\ pc = "abbreviate_venue"
    /\ venue \in { Str(s) : s \in VenueStrings }
    /\ venue_mappings \in VenueMappings
    /\ abbreviated = Unset
    /\ event = Unset /\ field_path = <<>> /\ extracted = Unset

CallAbbreviateVenue ==
    /\ pc = "abbreviate_venue"
    /\ abbreviated' = AbbreviateVenue(venue_mappings, venue)
    /\ pc' = "returned"
    /\ UNCHANGED mainVars
    /\ UNCHANGED <<api_response, output_fields, venue_mappings, format_type,
                   event, field_path, extracted, venue, idx, fi, event_data,
                   processed_events, warnings, stdout, exit_code>>

\* abbreviate_venue applied to what it returned.
CallAbbreviateVenueAgain ==
    /\ pc = "returned"
    /\ venue' = abbreviated
    /\ abbreviated' = AbbreviateVenue(venue_mappings, abbreviated)
    /\ pc' = "returned_again"
    /\ UNCHANGED mainVars
    /\ UNCHANGED <<api_response, output_fields, venue_mappings, format_type,
                   event, field_path, extracted, idx, fi, event_data,
                   processed_events, warnings, stdout, exit_code>>

NextVenue == CallAbbreviateVenue \/ CallAbbreviateVenueAgain

SpecVenue == InitVenue /\ [][NextVenue]_vars

\* needle occurs in hay at some position, character for character.
OccursIn(needle, hay) ==
    \E i \in 1..(Len(hay) + 1) :
        \A j \in 1..Len(needle) :
            i + j - 1 <= Len(hay) /\ hay[i + j - 1] = needle[j]

\* The positions of the mapping whose keyword occurs in the venue string.
Matching(mappings, v) ==
    { i \in 1..Len(mappings) : OccursIn(mappings[i][1], v[2]) }

\* C5: abbreviate_venue on a string returns the abbreviation of the first
\* keyword, in the mapping's iteration order, that occurs in the venue as a
\* case-sensitive substring, whatever longer keyword follows; with no such
\* keyword, or an empty venue, it returns the venue unchanged.
C5_FirstKeywordWins ==
    pc = "returned" =>
        LET hits == Matching(venue_mappings, venue) IN
        abbreviated =
            IF venue = EmptyStr \/ hits = {} THEN venue
            ELSE venue_mappings[CHOOSE i \in hits : \A j \in hits : i <= j][2]

\* Two keywords matched and the first, shorter one won over the longer one.
C5_Witness ==
    /\ pc = "returned"
    /\ venue = Str(sAB)
    /\ venue_mappings = << <<sA, Str(sX)>>, <<sAB, Str(sY)>> >>
    /\ abbreviated = Str(sX)

----------------------------------------------------------------------------
(* process_events, and main from its call of process_events on *)

\* event_data is a dict: pairs <<key, value>> in insertion order, keys unique.
DictHas(d, k) == \E i \in 1..Len(d) : d[i][1] = k

DictGet(d, k) == d[CHOOSE i \in 1..Len(d) : d[i][1] = k][2]

DictKeys(d) == { d[i][1] : i \in 1..Len(d) }

\* The slip that leaves an empty value out of the dict.
DictSetSkipEmpty(d, k, v) ==
    IF v = EmptyStr THEN d
    ELSE IF DictHas(d, k)
    THEN [i \in 1..Len(d) |-> IF d[i][1] = k THEN <<k, v>> ELSE d[i]]
    ELSE Append(d, <<k, v>>)

\* The slip that collects pairs in a list instead of a dict.
DictSetAppend(d, k, v) == Append(d, <<k, v>>)

\* d[k] = v
DictSet(d, k, v) ==
    IF DictHas(d, k)
    THEN [i \in 1..Len(d) |-> IF d[i][1] = k THEN <<k, v>> ELSE d[i]]
    ELSE Append(d, <<k, v>>)

\* The slip that normalises every field, not only location.title.
StoredValueEveryField(ev, path, mappings) ==
    LET x == ExtractField(ev, path) IN
    IF Truthy(x) THEN AbbreviateVenue(mappings, x) ELSE x

\* The value of one field: extraction, then normalisation of location.title.
\* TypeError when abbreviate_venue raises.
StoredValue(ev, path, mappings) ==
    LET x == ExtractField(ev, path) IN
    IF path = sLocationTitle /\ Truthy(x) THEN AbbreviateVenue(mappings, x) ELSE x

HasEventsKey(resp) == sEvents \in DOMAIN resp[2]

\* The slip that checks the key and forgets the type of its value.
RaisesProcessingErrorKeyOnly(resp) == ~HasEventsKey(resp)

\* The two structural checks that open process_events.
RaisesProcessingError(resp) ==
    IF ~HasEventsKey(resp) THEN TRUE ELSE ~IsList(resp[2][sEvents])

\* The list the loop runs over (empty when there is none).
EventsOf(resp) ==
    IF HasEventsKey(resp) /\ IsList(resp[2][sEvents])
    THEN resp[2][sEvents][2] ELSE <<>>

----------------------------------------------------------------------------
(* Text: what str(), repr() and ", ".join compute, character by character *)

Digits == <<"0", "1", "2", "3", "4", "5", "6", "7", "8", "9">>

RECURSIVE NatToStr(_)
NatToStr(n) ==
    IF n < 10 THEN <<Digits[n + 1]>>
    ELSE NatToStr(n \div 10) \o <<Digits[(n % 10) + 1]>>

\* str(n) of an int.
IntToStr(n) == IF n < 0 THEN <<"-">> \o NatToStr(-n) ELSE NatToStr(n)

\* sep.join(parts), for a sequence of strings.
RECURSIVE JoinStr(_, _)
JoinStr(parts, sep) ==
    IF parts = <<>> THEN <<>>
    ELSE IF Len(parts) = 1 THEN parts[1]
    ELSE parts[1] \o sep \o JoinStr(Tail(parts), sep)

HasChar(s, c) == \E i \in 1..Len(s) : s[i] = c

\* The keys of a JSON object in the order the dict iterates them.  A Map
\* payload keeps no insertion order, so one order is fixed per key set.
RECURSIVE SeqOf(_)
SeqOf(S) ==
    IF S = {} THEN <<>>
    ELSE LET k == CHOOSE k \in S : TRUE IN <<k>> \o SeqOf(S \ {k})

KeysOf(f) == SeqOf(DOMAIN f)

\* repr() of a str: single quotes unless the text holds one and no double
\* quote; backslash, the quote in use and control characters are escaped.
ReprQuote(s) == IF HasChar(s, "'") /\ ~HasChar(s, "\"") THEN "\"" ELSE "'"

ReprChar(c, q) ==
    IF c = "\\" THEN <<"\\", "\\">>
    ELSE IF c = q THEN <<"\\", q>>
    ELSE IF c = "\n" THEN <<"\\", "n">>
    ELSE IF c = "\r" THEN <<"\\", "r">>
    ELSE IF c = "\t" THEN <<"\\", "t">>
    ELSE <<c>>

ReprStr(s) ==
    LET q == ReprQuote(s)
    IN  <<q>> \o JoinStr([i \in 1..Len(s) |-> ReprChar(s[i], q)], <<>>) \o <<q>>

sTrue  == <<"T", "r", "u", "e">>
sFalse == <<"F", "a", "l", "s", "e">>
sNone  == <<"N", "o", "n", "e">>
sCommaSpace == <<",", " ">>
sColonSpace == <<":", " ">>

\* repr() of a JSON value as Python holds it.
RECURSIVE PyRepr(_)
PyRepr(v) ==
    IF IsStr(v) THEN ReprStr(v[2])
    ELSE IF IsNum(v) THEN IntToStr(v[2])
    ELSE IF IsBool(v) THEN (IF v[2] THEN sTrue ELSE sFalse)
    ELSE IF IsNull(v) THEN sNone
    ELSE IF IsList(v)
         THEN <<"[">> \o JoinStr([i \in 1..Len(v[2]) |-> PyRepr(v[2][i])],
                                 sCommaSpace) \o <<"]">>
    ELSE LET ks == KeysOf(v[2])
         IN  <<"{">> \o JoinStr([i \in 1..Len(ks) |->
                                    ReprStr(ks[i]) \o sColonSpace
                                        \o PyRepr(v[2][ks[i]])],
                                sCommaSpace) \o <<"}">>

\* str() of a JSON value: a str is itself, everything else is its repr.
PyStr(v) == IF IsStr(v) THEN v[2] ELSE PyRepr(v)

\* event.get(field, ""): the default is the empty string.
DictGetOrEmpty(d, field) == IF DictHas(d, field) THEN DictGet(d, field) ELSE EmptyStr

----------------------------------------------------------------------------
(* The renderers of src/src/output_formatter.py.  events is a list of      *)
(* dicts (sequences of <<key, value>> in insertion order), field_names a  *)
(* list of strings; every renderer returns a string.                      *)

\* Reads every field instead of the first two.
FormatMeshtasticAllFields(events, field_names) ==
    IF events = <<>> THEN <<"#">>
    ELSE JoinStr([i \in 1..Len(events) |->
                    JoinStr([j \in 1..Len(field_names) |->
                               PyStr(DictGetOrEmpty(events[i], field_names[j]))],
                            <<",">>)],
                 <<"#">>) \o <<"#">>

FormatMeshtastic(events, field_names) ==
    IF events = <<>> THEN <<"#">>
    ELSE LET fields_to_use == IF Len(field_names) >= 2
                              THEN SubSeq(field_names, 1, 2)
                              ELSE field_names
             formatted_parts ==
                 [i \in 1..Len(events) |->
                    JoinStr([j \in 1..Len(fields_to_use) |->
                               PyStr(DictGetOrEmpty(events[i], fields_to_use[j]))],
                            <<",">>)]
         IN  JoinStr(formatted_parts, <<"#">>) \o <<"#">>

\* json.dumps of a str: double quotes, with the two-character escapes.
JsonChar(c) ==
    IF c = "\"" THEN <<"\\", "\"">>
    ELSE IF c = "\\" THEN <<"\\", "\\">>
    ELSE IF c = "\n" THEN <<"\\", "n">>
    ELSE IF c = "\r" THEN <<"\\", "r">>
    ELSE IF c = "\t" THEN <<"\\", "t">>
    ELSE <<c>>

JsonStr(s) ==
    <<"\"">> \o JoinStr([i \in 1..Len(s) |-> JsonChar(s[i])], <<>>) \o <<"\"">>

Spaces(n) == [i \in 1..n |-> " "]

\* The separator between the items of a container opened at depth ind.
ItemSep(ind) == <<",", "\n">> \o Spaces(ind + 2)

\* An indented container: [..] or {..} around items, one item per line.
Bracketed(open, close, items, ind) ==
    IF items = <<>> THEN <<open, close>>
    ELSE <<open, "\n">> \o Spaces(ind + 2) \o JoinStr(items, ItemSep(ind))
             \o <<"\n">> \o Spaces(ind) \o <<close>>

sJsonTrue  == <<"t", "r", "u", "e">>
sJsonFalse == <<"f", "a", "l", "s", "e">>
sJsonNull  == <<"n", "u", "l", "l">>

\* json.dumps(v, indent=2) of a value nested at depth ind.
RECURSIVE JsonDump(_, _)
JsonDump(v, ind) ==
    IF IsStr(v) THEN JsonStr(v[2])
    ELSE IF IsNum(v) THEN IntToStr(v[2])
    ELSE IF IsBool(v) THEN (IF v[2] THEN sJsonTrue ELSE sJsonFalse)
    ELSE IF IsNull(v) THEN sJsonNull
    ELSE IF IsList(v)
         THEN Bracketed("[", "]",
                        [i \in 1..Len(v[2]) |-> JsonDump(v[2][i], ind + 2)], ind)
    ELSE LET ks == KeysOf(v[2])
         IN  Bracketed("{", "}",
                       [i \in 1..Len(ks) |->
                          JsonStr(ks[i]) \o sColonSpace
                              \o JsonDump(v[2][ks[i]], ind + 2)], ind)

\* json.dumps of one event dict, keys in insertion order.
JsonObject(d, ind) ==
    Bracketed("{", "}",
              [i \in 1..Len(d) |->
                 JsonStr(d[i][1]) \o sColonSpace \o JsonDump(d[i][2], ind + 2)],
              ind)

\* Renders each event through field_names, as the other renderers do.
FormatJsonByFields(events, field_names) ==
    Bracketed("[", "]",
              [i \in 1..Len(events) |->
                 JsonObject([j \in 1..Len(field_names) |->
                               <<field_names[j],
                                 DictGetOrEmpty(events[i], field_names[j])>>], 2)],
              0)

FormatJson(events) ==
    Bracketed("[", "]", [i \in 1..Len(events) |-> JsonObject(events[i], 2)], 0)

\* csv.writer, excel dialect with QUOTE_MINIMAL: a field is quoted when it
\* holds the delimiter, the quote character or a line-terminator character,
\* and every quote inside it is doubled.
CsvNeedsQuote(s) ==
    \E i \in 1..Len(s) : s[i] \in {",", "\"", "\r", "\n"}

CsvChar(c) == IF c = "\"" THEN <<"\"", "\"">> ELSE <<c>>

CsvQuoteAlways(s) ==
    <<"\"">> \o JoinStr([i \in 1..Len(s) |-> CsvChar(s[i])], <<>>) \o <<"\"">>

\* Writes every field bare.
CsvQuoteNever(s) == s

CsvQuote(s) == IF CsvNeedsQuote(s) THEN CsvQuoteAlways(s) ELSE s

\* The text of one cell: None is written empty, a str as it is, anything
\* else through str().
CsvText(v) == IF IsNull(v) THEN <<>> ELSE PyStr(v)

sCRLF == <<"\r", "\n">>

\* writer.writerow(cells): a row whose only field is empty is written as a
\* pair of quotes, so that it differs from a row without fields.
CsvRow(cells) ==
    (IF Len(cells) = 1 /\ CsvText(cells[1]) = <<>>
     THEN <<"\"", "\"">>
     ELSE JoinStr([i \in 1..Len(cells) |-> CsvQuote(CsvText(cells[i]))],
                  <<",">>))
    \o sCRLF

\* Writes no header row.
FormatCsvNoHeader(events, field_names) ==
    JoinStr([i \in 1..Len(events) |->
               CsvRow([j \in 1..Len(field_names) |->
                         DictGetOrEmpty(events[i], field_names[j])])],
            <<>>)

FormatCsv(events, field_names) ==
    CsvRow([j \in 1..Len(field_names) |-> Str(field_names[j])])
    \o JoinStr([i \in 1..Len(events) |->
                  CsvRow([j \in 1..Len(field_names) |->
                            DictGetOrEmpty(events[i], field_names[j])])],
               <<>>)

\* Leaves the last line without its newline.
FormatPlainNoFinalNewline(events, field_names) ==
    JoinStr([i \in 1..Len(events) |->
               JoinStr([j \in 1..Len(field_names) |->
                          field_names[j] \o sColonSpace
                              \o PyStr(DictGetOrEmpty(events[i], field_names[j]))],
                       sCommaSpace)],
            <<"\n">>)

FormatPlain(events, field_names) ==
    IF events = <<>> THEN <<>>
    ELSE LET lines ==
                 [i \in 1..Len(events) |->
                    JoinStr([j \in 1..Len(field_names) |->
                               field_names[j] \o sColonSpace
                                   \o PyStr(DictGetOrEmpty(events[i],
                                                           field_names[j]))],
                            sCommaSpace)]
         IN  JoinStr(lines, <<"\n">>) \o <<"\n">>

ValidFormats == {"meshtastic", "json", "csv", "plain"}

\* The ValueError of format_events; its message is kept as the pieces of
\* the f-string, the offending value among them.
ValueError(format_type_) ==
    <<"ValueError", <<"Invalid format type: ", format_type_,
                      ". Valid options are: ", "meshtastic", ", ", "json",
                      ", ", "csv", ", ", "plain">> >>

IsValueError(r) == r[1] = "ValueError"

\* Renders an unknown format as meshtastic.
FormatEventsFallback(events, fmt, fields) ==
    IF fmt = "json" THEN Str(FormatJson(events))
    ELSE IF fmt = "csv" THEN Str(FormatCsv(events, fields))
    ELSE IF fmt = "plain" THEN Str(FormatPlain(events, fields))
    ELSE Str(FormatMeshtastic(events, fields))

\* Renders json through field_names.
FormatEventsJsonByFields(events, fmt, fields) ==
    IF fmt = "meshtastic" THEN Str(FormatMeshtastic(events, fields))
    ELSE IF fmt = "json" THEN Str(FormatJsonByFields(events, fields))
    ELSE IF fmt = "csv" THEN Str(FormatCsv(events, fields))
    ELSE IF fmt = "plain" THEN Str(FormatPlain(events, fields))
    ELSE ValueError(fmt)

\* format_events: what it returns, or the exception it raises.
FormatEvents(events, fmt, fields) ==
    IF fmt = "meshtastic" THEN Str(FormatMeshtastic(events, fields))
    ELSE IF fmt = "json" THEN Str(FormatJson(events))
    ELSE IF fmt = "csv" THEN Str(FormatCsv(events, fields))
    ELSE IF fmt = "plain" THEN Str(FormatPlain(events, fields))
    ELSE ValueError(fmt)

\* Leaving the `with SessionManager()` block closes the session it opened.
Released(s) == IF s = "open" THEN "closed" ELSE s

\* The exceptions main handles as VillagesEventError.
VillagesEventErrors ==
    {"TokenFetchError", "SessionError", "APIError", "ProcessingError"}

----------------------------------------------------------------------------
(* Inputs of the batch *)

MaxEvents == 2
MaxFields == 2

ProcEvents ==
    { Map((sLocation :> Map(sTitle :> Str(sAB))) @@ (sTitle :> Str(sA))),
      EmptyMap,
      Map((sLocation :> Map(sTitle :> Num(5))) @@ (sTitle :> Null)),
      Str(sAB),
      Map((sLocation :> Map(sTitle :> List(<<Str(sA)>>))) @@ (sTitle :> Num(0))) }

ProcPaths == { sLocationTitle, sTitle, sLocation }

ProcMappings == { <<>>, << <<sA, Str(sX)>>, <<sAB, Str(sY)>> >> }

ProcFormats == {"json", "xml"}

\* Elements of the events list that are not maps.
NonMapEvents == { Str(sAB), Num(5), Bool(TRUE), Null, List(<<Str(sA)>>) }

\* An event with both fields, for the lists that mix it with a non-map.
FullEvent == Map((sLocation :> Map(sTitle :> Str(sAB))) @@ (sTitle :> Str(sA)))

Responses ==
    { Map(sEvents :> List(evs)) :
        evs \in UNION { [1..k -> ProcEvents] : k \in 0..MaxEvents } }
    \cup { Map(sEvents :> List(<<ev, FullEvent>>)) : ev \in NonMapEvents }
    \cup { Map(sEvents :> List(<<FullEvent, ev>>)) : ev \in NonMapEvents }
    \cup { Map(sData :> List(<<>>)), Map(sEvents :> Str(sAB)) }

FieldSets == UNION { [1..k -> ProcPaths] : k \in 0..MaxFields }

Init ==
    /\ IdleMain
    /\ pc = "process_events"
    /\ api_response \in Responses
    /\ output_fields \in FieldSets
    /\ venue_mappings \in ProcMappings
    /\ format_type \in ProcFormats
    /\ event = Unset /\ field_path = <<>> /\ extracted = Unset
    /\ venue = Unset /\ abbreviated = Unset
    /\ idx = 0 /\ fi = 0 /\ event_data = <<>>
    /\ processed_events = <<>> /\ warnings = <<>>
    /\ stdout = <<>> /\ exit_code = -1

\* Lines 91-96: a response without a list of events fails the whole call.
RaiseProcessingError ==
    /\ pc = "process_events"
    /\ RaisesProcessingError(api_response)
    /\ pc' = "ProcessingError"
    /\ UNCHANGED mainVars
    /\ UNCHANGED <<api_response, output_fields, venue_mappings, format_type,
                   event, field_path, extracted, venue, abbreviated, idx, fi,
                   event_data, processed_events, warnings, stdout, exit_code>>

\* Lines 94-103: the loop is entered at the first event.
EnterLoop ==
    /\ pc = "process_events"
    /\ ~RaisesProcessingError(api_response)
    /\ pc' = "loop"
    /\ idx' = 1 /\ fi' = 1
    /\ event_data' = <<>> /\ processed_events' = <<>>
    /\ UNCHANGED mainVars
    /\ UNCHANGED <<api_response, output_fields, venue_mappings, format_type,
                   event, field_path, extracted, venue, abbreviated, warnings,
                   stdout, exit_code>>

InEvent ==
    /\ pc = "loop"
    /\ idx <= Len(EventsOf(api_response))
    /\ fi <= Len(output_fields)

\* The registers of the calls made for the field at fi.
FieldCalls ==
    LET ev == EventsOf(api_response)[idx]
        x  == ExtractField(ev, output_fields[fi]) IN
    /\ event' = ev
    /\ field_path' = output_fields[fi]
    /\ extracted' = x
    /\ IF output_fields[fi] = sLocationTitle /\ Truthy(x)
       THEN venue' = x /\ abbreviated' = AbbreviateVenue(venue_mappings, x)
       ELSE UNCHANGED <<venue, abbreviated>>

\* Lines 105-114: one field is extracted, normalised and stored.
ProjectField ==
    /\ InEvent
    /\ LET v == StoredValue(EventsOf(api_response)[idx], output_fields[fi],
                            venue_mappings) IN
       /\ v # TypeError
       /\ event_data' = DictSet(event_data, output_fields[fi], v)
    /\ FieldCalls
    /\ fi' = fi + 1
    /\ UNCHANGED mainVars
    /\ UNCHANGED <<pc, api_response, output_fields, venue_mappings,
                   format_type, idx, processed_events, warnings, stdout,
                   exit_code>>

\* The slip that guards the whole batch: the first exception ends the loop.
SkipEventEndsBatch ==
    /\ InEvent
    /\ StoredValue(EventsOf(api_response)[idx], output_fields[fi],
                   venue_mappings) = TypeError
    /\ FieldCalls
    /\ warnings' = Append(warnings, idx)
    /\ pc' = "returned"
    /\ UNCHANGED mainVars
    /\ UNCHANGED <<api_response, output_fields, venue_mappings, format_type,
                   idx, fi, event_data, processed_events, stdout, exit_code>>

\* Lines 119-121: an exception in the event's fields skips that event.
SkipEvent ==
    /\ InEvent
    /\ StoredValue(EventsOf(api_response)[idx], output_fields[fi],
                   venue_mappings) = TypeError
    /\ FieldCalls
    /\ warnings' = Append(warnings, idx)
    /\ idx' = idx + 1 /\ fi' = 1 /\ event_data' = <<>>
    /\ UNCHANGED mainVars
    /\ UNCHANGED <<pc, api_response, output_fields, venue_mappings,
                   format_type, processed_events, stdout, exit_code>>

\* Line 117: the finished dict is appended and the next event begins.
AppendEvent ==
    /\ pc = "loop"
    /\ idx <= Len(EventsOf(api_response))
    /\ fi > Len(output_fields)
    /\ processed_events' = Append(processed_events, event_data)
    /\ idx' = idx + 1 /\ fi' = 1 /\ event_data' = <<>>
    /\ UNCHANGED mainVars
    /\ UNCHANGED <<pc, api_response, output_fields, venue_mappings,
                   format_type, event, field_path, extracted, venue,
                   abbreviated, warnings, stdout, exit_code>>

\* Line 123: the list is returned to main.
ReturnEvents ==
    /\ pc = "loop"
    /\ idx > Len(EventsOf(api_response))
    /\ pc' = "returned"
    /\ UNCHANGED mainVars
    /\ UNCHANGED <<api_response, output_fields, venue_mappings, format_type,
                   event, field_path, extracted, venue, abbreviated, idx, fi,
                   event_data, processed_events, warnings, stdout, exit_code>>

\* main, lines 173-183: the events are rendered, printed once, and main
\* returns 0.
MainPrint ==
    /\ pc = "returned"
    /\ formatted' = FormatEvents(processed_events, format_type, output_fields)
    /\ ~IsValueError(formatted')
    /\ stdout' = Append(stdout, formatted'[2])
    /\ exit_code' = 0
    /\ pc' = "exit"
    /\ session' = Released(session)
    /\ UNCHANGED <<yaml_config, argv, args, network, files, calendar_url,
                   api_url>>
    /\ UNCHANGED <<api_response, output_fields, venue_mappings, format_type,
                   event, field_path, extracted, venue, abbreviated, idx, fi,
                   event_data, processed_events, warnings>>

\* main, lines 189-192 after output_formatter.py lines 136-140: the renderer
\* raises ValueError, main logs it and returns 1.
MainFormatError ==
    /\ pc = "returned"
    /\ formatted' = FormatEvents(processed_events, format_type, output_fields)
    /\ IsValueError(formatted')
    /\ exit_code' = 1
    /\ pc' = "exit"
    /\ session' = Released(session)
    /\ UNCHANGED <<yaml_config, argv, args, network, files, calendar_url,
                   api_url>>
    /\ UNCHANGED <<api_response, output_fields, venue_mappings, format_type,
                   event, field_path, extracted, venue, abbreviated, idx, fi,
                   event_data, processed_events, warnings, stdout>>

\* Writes the error to stdout before returning 1.
MainHandleErrorPrints ==
    /\ pc \in VillagesEventErrors
    /\ exit_code' = 1
    /\ stdout' = Append(stdout, <<"E", "r", "r", "o", "r">>)
    /\ pc' = "exit"
    /\ session' = Released(session)
    /\ UNCHANGED <<formatted, yaml_config, argv, args, network, files,
                   calendar_url, api_url>>
    /\ UNCHANGED <<api_response, output_fields, venue_mappings, format_type,
                   event, field_path, extracted, venue, abbreviated, idx, fi,
                   event_data, processed_events, warnings>>

\* main, lines 185-188: an error of the application's family leaves the
\* session scope, is logged, and main returns 1.
MainHandleError ==
    /\ pc \in VillagesEventErrors
    /\ exit_code' = 1
    /\ pc' = "exit"
    /\ session' = Released(session)
    /\ UNCHANGED <<formatted, yaml_config, argv, args, network, files,
                   calendar_url, api_url>>
    /\ UNCHANGED <<api_response, output_fields, venue_mappings, format_type,
                   event, field_path, extracted, venue, abbreviated, idx, fi,
                   event_data, processed_events, warnings, stdout>>

Next ==
    \/ RaiseProcessingError
    \/ EnterLoop
    \/ ProjectField
    \/ SkipEvent
    \/ AppendEvent
    \/ ReturnEvents
    \/ MainPrint
    \/ MainFormatError
    \/ MainHandleError

Spec == Init /\ [][Next]_vars

----------------------------------------------------------------------------
(* Properties of process_events *)

Range(s) == { s[i] : i \in 1..Len(s) }

RECURSIVE KeptUpTo(_, _)
\* The indices 1..n that were not logged as skipped, in increasing order.
KeptUpTo(w, n) ==
    IF n = 0 THEN <<>>
    ELSE IF n \in Range(w) THEN KeptUpTo(w, n - 1)
    ELSE Append(KeptUpTo(w, n - 1), n)

\* The events the loop has finished with.
Handled == IF idx = 0 THEN 0 ELSE idx - 1

\* The event each returned projection was made from, by position.
Sources ==
    LET kept == KeptUpTo(warnings, Handled)
        evs  == EventsOf(api_response) IN
    [k \in 1..Len(processed_events) |->
        IF k <= Len(kept) /\ kept[k] <= Len(evs) THEN evs[kept[k]] ELSE Unset]

\* The path names nothing in the event, or names a null.
MissingOrNull(ev, path) ==
    LET segs == Split(path) IN
    IF ~RefResolves(ev, segs, Len(segs)) THEN TRUE
    ELSE IsNull(RefNode(ev, segs, Len(segs)))

\* C1: every ProjectedEvent process_events returns has every field path of the FieldSet as
\* a key, exactly as written there, and a field whose source value is missing
\* or null is stored as the empty string.
C1_EveryFieldIsAKey ==
    pc = "returned" =>
    LET src == Sources IN
    \A k \in 1..Len(processed_events) :
        \A i \in 1..Len(output_fields) :
            /\ DictHas(processed_events[k], output_fields[i])
            /\ MissingOrNull(src[k], output_fields[i]) =>
                   DictGet(processed_events[k], output_fields[i]) = EmptyStr

\* The empty map was projected onto two fields, both stored as "".
C1_Witness ==
    /\ pc = "returned"
    /\ output_fields = <<sLocationTitle, sTitle>>
    /\ \E k \in 1..Len(processed_events) :
          /\ Sources[k] = EmptyMap
          /\ processed_events[k] =
                 << <<sLocationTitle, EmptyStr>>, <<sTitle, EmptyStr>> >>

\* C2 as stated: a ProjectedEvent has as many keys as the FieldSet has
\* entries, repeated entries counted each time.
C2_KeysEqualEntries ==
    pc = "returned" =>
    \A k \in 1..Len(processed_events) :
        Len(processed_events[k]) = Len(output_fields)

\* C2, amended: a ProjectedEvent has as many keys as the FieldSet has
\* distinct entries, for every event including the empty map.
C2_KeysEqualDistinctEntries ==
    pc = "returned" =>
    \A k \in 1..Len(processed_events) :
        /\ Len(processed_events[k]) = Cardinality(Range(output_fields))
        /\ Cardinality(DictKeys(processed_events[k])) = Len(processed_events[k])

\* A FieldSet that names one path twice gave a ProjectedEvent of one key.
C2_Witness ==
    /\ pc = "returned"
    /\ Len(output_fields) = 2
    /\ output_fields[1] = output_fields[2]
    /\ \E k \in 1..Len(processed_events) :
          Sources[k] = EmptyMap /\ Len(processed_events[k]) = 1

\* C6: only the entry "location.title" is normalised, and only when its
\* extracted value is non-empty; under every other field path the stored value
\* is the value the walk of the path yields, mapped keyword or not.
C6_OnlyLocationTitleNormalised ==
    pc = "returned" =>
    LET src == Sources IN
    \A k \in 1..Len(processed_events) :
        \A i \in 1..Len(output_fields) :
            LET f == output_fields[i]
                x == RefExtract(src[k], Split(f)) IN
            (f # sLocationTitle \/ ~Truthy(x)) =>
                /\ DictHas(processed_events[k], f)
                /\ DictGet(processed_events[k], f) = x

\* The title holds a mapped keyword and was stored as it is, next to a
\* location.title that was abbreviated.
C6_Witness ==
    /\ pc = "returned"
    /\ venue_mappings # <<>>
    /\ \E k \in 1..Len(processed_events) :
          /\ DictHas(processed_events[k], sTitle)
          /\ DictHas(processed_events[k], sLocationTitle)
          /\ DictGet(processed_events[k], sTitle) = Str(sA)
          /\ \E j \in 1..Len(venue_mappings) : venue_mappings[j][1] = sA
          /\ DictGet(processed_events[k], sLocationTitle) = Str(sX)
          /\ RefExtract(Sources[k], Split(sLocationTitle)) = Str(sAB)

\* The response has no `events` key, or its value is no sequence.
BadShape ==
    IF sEvents \notin DOMAIN api_response[2] THEN TRUE
    ELSE api_response[2][sEvents][1] # "list"

\* C7: a response without an `events` sequence fails the whole call with a
\* ProcessingError: the loop is never entered, nothing is projected, no
\* per-event skip is logged, and main returns 1 with nothing on stdout.
C7_BadShapeIsFatal ==
    BadShape =>
        /\ pc \in {"process_events", "ProcessingError", "exit"}
        /\ processed_events = <<>> /\ event_data = <<>>
        /\ warnings = <<>>
        /\ stdout = <<>>
        /\ exit_code = (IF pc = "exit" THEN 1 ELSE -1)

\* main has returned 1 for an `events` value that is a string.
C7_Witness ==
    /\ pc = "exit" /\ exit_code = 1 /\ stdout = <<>>
    /\ sEvents \in DOMAIN api_response[2]
    /\ IsStr(api_response[2][sEvents])

\* A field of the event makes the projection raise.
ProjectionRaises(ev) ==
    \E i \in 1..Len(output_fields) :
        StoredValue(ev, output_fields[i], venue_mappings) = TypeError

\* C8: the returned list holds, in input order, the projection of every
\* event the loop has finished with except the skipped ones; exactly the
\* events whose projection raises are skipped, each alone, and the call
\* returns only after every event was considered.
C8_OrderPreservedSkipAlone ==
    pc \in {"loop", "returned"} =>
        LET evs  == EventsOf(api_response)
            kept == KeptUpTo(warnings, Handled) IN
        /\ Handled <= Len(evs)
        /\ Len(processed_events) = Len(kept)
        /\ Range(warnings) \subseteq 1..Handled
        /\ \A i, j \in 1..Len(warnings) : i < j => warnings[i] < warnings[j]
        /\ pc = "returned" =>
              /\ Handled = Len(evs)
              /\ \A i \in 1..Handled :
                    (i \in Range(warnings)) = ProjectionRaises(evs[i])
              /\ \A k \in 1..Len(processed_events) :
                    /\ k <= Len(kept)
                    /\ DictKeys(processed_events[k]) = Range(output_fields)
                    /\ \A f \in Range(output_fields) :
                          DictGet(processed_events[k], f) =
                              StoredValue(evs[kept[k]], f, venue_mappings)

\* The first event was skipped after one of its fields had been stored, and
\* the second event was still projected and returned.
C8_Witness ==
    /\ pc = "returned"
    /\ Len(EventsOf(api_response)) = 2
    /\ warnings = <<1>>
    /\ output_fields = <<sTitle, sLocationTitle>>
    /\ processed_events =
           << << <<sTitle, Str(sA)>>, <<sLocationTitle, Str(sX)>> >> >>

\* C9 as stated: no event is ever skipped, so the returned list is as long as
\* the input.
C9_OneProjectionPerEvent ==
    pc \in {"returned", "exit"} =>
        /\ warnings = <<>>
        /\ Len(processed_events) = Len(EventsOf(api_response))

\* C10 as stated: every stored value is a string.
C10_EveryValueIsString ==
    pc = "returned" =>
    \A k \in 1..Len(processed_events) :
        \A i \in 1..Len(processed_events[k]) :
            IsStr(processed_events[k][i][2])

\* C10, amended: no stored value is null; a field whose source value is
\* missing, null or a string is stored as a string; a non-string leaf (number,
\* boolean, sequence, map) is stored unchanged, or, under location.title, as
\* the abbreviation (a string) of a keyword the sequence or map contains.
C10_StringUnlessNonStringLeaf ==
    pc = "returned" =>
    LET src == Sources IN
    \A k \in 1..Len(processed_events) :
        \A i \in 1..Len(output_fields) :
            LET f == output_fields[i]
                x == RefExtract(src[k], Split(f))
                v == DictGet(processed_events[k], f) IN
            /\ DictHas(processed_events[k], f)
            /\ ~IsNull(v)
            /\ IsStr(x) => IsStr(v)
            /\ ~IsStr(x) => (v = x \/ (f = sLocationTitle /\ IsStr(v)))

\* A number and a map were stored as they are, beside a null stored as "".
C10_Witness ==
    /\ pc = "returned"
    /\ output_fields = <<sLocation, sTitle>>
    /\ \E k \in 1..Len(processed_events) :
          /\ DictGet(processed_events[k], sLocation) = Map(sTitle :> Num(5))
          /\ DictGet(processed_events[k], sTitle) = EmptyStr
          /\ MissingOrNull(Sources[k], sTitle)

----------------------------------------------------------------------------
(* Specification of a call of format_events *)

MaxFormatFields == 3

sCQ == <<",", "\"">>

FormatNames == { sA, sB, sCQ }

FormatDicts ==
    { <<>>,
      << <<sA, Str(sX)>>, <<sB, Str(sCQ)>> >>,
      << <<sB, Num(5)>> >>,
      << <<sCQ, Bool(TRUE)>>, <<sA, EmptyStr>> >>,
      << <<sA, List(<<Str(<<"\n">>), Null>>)>>, <<sB, Null>> >> }

FormatFieldSets == UNION { [1..k -> FormatNames] : k \in 0..MaxFormatFields }

FormatEventLists == UNION { [1..k -> FormatDicts] : k \in 0..MaxEvents }

FormatTypes == ValidFormats \cup {"xml", "JSON"}

InitFormat ==
    /\ pc = "format_events"
    /\ processed_events \in FormatEventLists
    /\ output_fields \in FormatFieldSets
    /\ format_type \in FormatTypes
    /\ formatted = Unset
    /\ yaml_config = EmptyMap /\ argv = <<>> /\ args = Unset
    /\ network = <<>> /\ session = "none"
    /\ files = <<>> /\ calendar_url = <<>> /\ api_url = <<>>
    /\ api_response = EmptyMap /\ venue_mappings = <<>>
    /\ event = Unset /\ field_path = <<>> /\ extracted = Unset
    /\ venue = Unset /\ abbreviated = Unset
    /\ idx = 0 /\ fi = 0 /\ event_data = <<>> /\ warnings = <<>>
    /\ stdout = <<>> /\ exit_code = -1

CallFormatEvents ==
    /\ pc = "format_events"
    /\ formatted' = FormatEvents(processed_events, format_type, output_fields)
    /\ pc' = IF IsValueError(formatted') THEN "ValueError" ELSE "returned"
    /\ UNCHANGED <<api_response, output_fields, venue_mappings, format_type,
                   event, field_path, extracted, venue, abbreviated, idx, fi,
                   event_data, processed_events, warnings, stdout, exit_code,
                   yaml_config, argv, args, network, session, files,
                   calendar_url, api_url>>

NextFormat == CallFormatEvents

SpecFormat == InitFormat /\ [][NextFormat]_vars

----------------------------------------------------------------------------
(* Readers of the rendered text, used to state what the text holds *)

IsNewline(c) == c \in {"\r", "\n"}

\* The position after the line break that starts at position i.
AfterBreak(text, i) ==
    IF text[i] = "\r" /\ i < Len(text) /\ text[i + 1] = "\n" THEN i + 2 ELSE i + 1

\* One cell read as csv.reader reads the excel dialect, from position i in
\* reader state st with cell collected so far: the cell's text and the
\* position of the delimiter or line break that ends it.
RECURSIVE ReadCell(_, _, _, _)
ReadCell(text, i, st, cell) ==
    CASE i > Len(text) -> <<cell, i>>
      [] i <= Len(text) /\ st = "in_quoted" ->
            IF text[i] = "\""
            THEN ReadCell(text, i + 1, "quote_in_quoted", cell)
            ELSE ReadCell(text, i + 1, "in_quoted", Append(cell, text[i]))
      [] i <= Len(text) /\ st # "in_quoted"
            /\ (IsNewline(text[i]) \/ text[i] = ",") -> <<cell, i>>
      [] i <= Len(text) /\ st = "start_field" /\ text[i] = "\"" ->
            ReadCell(text, i + 1, "in_quoted", cell)
      [] i <= Len(text) /\ st = "quote_in_quoted" /\ text[i] = "\"" ->
            ReadCell(text, i + 1, "in_quoted", Append(cell, text[i]))
      [] OTHER -> ReadCell(text, i + 1, "in_field", Append(cell, text[i]))

\* One record from position i: its cells and the position of the line
\* break that ends it.
RECURSIVE ReadRecord(_, _, _)
ReadRecord(text, i, row) ==
    LET r == ReadCell(text, i, "start_field", <<>>)
    IN  IF r[2] <= Len(text) /\ text[r[2]] = ","
        THEN ReadRecord(text, r[2] + 1, Append(row, r[1]))
        ELSE <<Append(row, r[1]), r[2]>>

\* The records of a CSV text from position i on; a line without any
\* character is a record without cells.
RECURSIVE ReadCsv(_, _, _)
ReadCsv(text, i, rows) ==
    IF i > Len(text) THEN rows
    ELSE IF IsNewline(text[i])
    THEN ReadCsv(text, AfterBreak(text, i), Append(rows, <<>>))
    ELSE LET r == ReadRecord(text, i, <<>>)
         IN  ReadCsv(text,
                     IF r[2] > Len(text) THEN r[2] ELSE AfterBreak(text, r[2]),
                     Append(rows, r[1]))

CsvRecords(text) == ReadCsv(text, 1, <<>>)

\* The position of the first "\n" at or after position i, or one past the
\* end of the text when there is none.
NextBreak(text, i) ==
    IF \E j \in i..Len(text) : text[j] = "\n"
    THEN CHOOSE j \in i..Len(text) :
             text[j] = "\n" /\ \A k \in i..(j - 1) : text[k] # "\n"
    ELSE Len(text) + 1

\* text.split("\n"), from position i on.
RECURSIVE SplitLines(_, _)
SplitLines(text, i) ==
    LET j == NextBreak(text, i)
    IN  <<SubSeq(text, i, j - 1)>>
            \o (IF j > Len(text) THEN <<>> ELSE SplitLines(text, j + 1))

StartsWith(s, p) == Len(s) >= Len(p) /\ SubSeq(s, 1, Len(p)) = p

JsonUnescape(c) ==
    IF c = "n" THEN "\n" ELSE IF c = "r" THEN "\r" ELSE IF c = "t" THEN "\t" ELSE c

\* The string a JSON string literal denotes, read from the character after
\* its opening quote at position i - 1 up to its closing quote.
RECURSIVE ReadJsonString(_, _)
ReadJsonString(s, i) ==
    IF i > Len(s) \/ s[i] = "\"" THEN <<>>
    ELSE IF s[i] = "\\" THEN <<JsonUnescape(s[i + 1])>> \o ReadJsonString(s, i + 2)
    ELSE <<s[i]>> \o ReadJsonString(s, i + 1)

\* In json.dumps(list_of_dicts, indent=2) an object of the list opens on a
\* line "  {", its keys sit on the lines indented by exactly four spaces
\* that open a string, and deeper values are indented further.
OpensObject(line) == StartsWith(line, <<" ", " ", "{">>)
IsKeyLine(line)   == StartsWith(line, <<" ", " ", " ", " ", "\"">>)

\* The key sequences of the objects of the array, in document order.
RECURSIVE ReadObjectKeys(_, _, _)
ReadObjectKeys(lines, i, objs) ==
    IF i > Len(lines) THEN objs
    ELSE IF OpensObject(lines[i])
    THEN ReadObjectKeys(lines, i + 1, Append(objs, <<>>))
    ELSE IF IsKeyLine(lines[i])
    THEN ReadObjectKeys(lines, i + 1,
             [objs EXCEPT ![Len(objs)] = Append(@, ReadJsonString(lines[i], 6))])
    ELSE ReadObjectKeys(lines, i + 1, objs)

JsonObjectKeys(text) == ReadObjectKeys(SplitLines(text, 1), 1, <<>>)

----------------------------------------------------------------------------
(* Properties of the renderers *)

Rendered(fmt) == pc = "returned" /\ format_type = fmt /\ IsStr(formatted)

\* The value a renderer shows for a field: the event's own, or the empty
\* string when the event has no such key.
Shown(ev, field) == IF DictHas(ev, field) THEN PyStr(DictGet(ev, field)) ELSE <<>>

\* One event in the compact format: the first two FieldSet entries, or the
\* only one, separated by a comma.
CompactEvent(ev, fields) ==
    IF Len(fields) = 0 THEN <<>>
    ELSE IF Len(fields) = 1 THEN Shown(ev, fields[1])
    ELSE Shown(ev, fields[1]) \o <<",">> \o Shown(ev, fields[2])

RECURSIVE CompactEvents(_, _)
CompactEvents(events, fields) ==
    IF events = <<>> THEN <<>>
    ELSE CompactEvent(Head(events), fields) \o <<"#">>
             \o CompactEvents(Tail(events), fields)

\* C11: the meshtastic text is, for every event in order, the values of the
\* first two FieldSet entries (or of the only entry) joined by ',' with an
\* absent key shown as the empty string, each event followed by '#'; an
\* empty event sequence renders as exactly "#".
C11_MeshtasticIsFirstTwoFieldsPerEvent ==
    Rendered("meshtastic") =>
        /\ formatted[2] = IF processed_events = <<>> THEN <<"#">>
                          ELSE CompactEvents(processed_events, output_fields)
        /\ formatted[2][Len(formatted[2])] = "#"

C11_Witness ==
    /\ Rendered("meshtastic")
    /\ Len(processed_events) = 2
    /\ Len(output_fields) = 3
    /\ output_fields[3] \notin {output_fields[1], output_fields[2]}
    /\ DictHas(processed_events[1], output_fields[3])
    /\ ~DictHas(processed_events[2], output_fields[1])

\* The keys of an event in the order the event holds them.
KeySeq(ev) == [j \in 1..Len(ev) |-> ev[j][1]]

\* C12: the json text is an array with one object per event, in input
\* order, whose keys are the keys the event map carries; field_names are
\* not consulted, so an object has exactly the FieldSet's fields as keys
\* whenever its event carries exactly those, as a ProjectedEvent does.
C12_JsonObjectsCarryEventKeys ==
    Rendered("json") =>
        LET objs == JsonObjectKeys(formatted[2])
        IN  /\ Len(objs) = Len(processed_events)
            /\ \A i \in 1..Len(objs) :
                   /\ objs[i] = KeySeq(processed_events[i])
                   /\ DictKeys(processed_events[i])
                          = { output_fields[j] : j \in 1..Len(output_fields) }
                      => { objs[i][j] : j \in 1..Len(objs[i]) }
                          = { output_fields[j] : j \in 1..Len(output_fields) }

C12_Witness ==
    /\ Rendered("json")
    /\ Len(processed_events) = 2
    /\ DictKeys(processed_events[1])
           = { output_fields[j] : j \in 1..Len(output_fields) }
    /\ DictKeys(processed_events[2])
           # { output_fields[j] : j \in 1..Len(output_fields) }
    /\ Len(processed_events[1]) = 2
    /\ KeySeq(processed_events[1]) # KeySeq(processed_events[2])

\* The cell text of a value in the tabular format.
CellText(ev, field) ==
    IF ~DictHas(ev, field) \/ IsNull(DictGet(ev, field)) THEN <<>>
    ELSE PyStr(DictGet(ev, field))

\* C13: read back as CSV, the csv text is a header row holding the
\* FieldSet's entries in order and then one row per event in input order
\* holding the event's values in field order, empty for an absent key; an
\* empty event sequence leaves the header row alone.
C13_CsvIsHeaderThenOneRowPerEvent ==
    Rendered("csv") =>
        LET recs == CsvRecords(formatted[2])
        IN  /\ Len(recs) = 1 + Len(processed_events)
            /\ recs[1] = output_fields
            /\ \A i \in 1..Len(processed_events) :
                   recs[i + 1] = [j \in 1..Len(output_fields) |->
                                    CellText(processed_events[i], output_fields[j])]

C13_Witness ==
    /\ Rendered("csv")
    /\ Len(processed_events) = 2
    /\ Len(output_fields) = 3
    /\ \E j \in 1..3 : ~DictHas(processed_events[1], output_fields[j])
    /\ \E j \in 1..3 : /\ DictHas(processed_events[2], output_fields[j])
                       /\ CsvNeedsQuote(CellText(processed_events[2],
                                                 output_fields[j]))

\* C14: for every FieldSet and every non-empty event sequence, the cells
\* of the first row of the csv text, read back as CSV, are exactly the
\* FieldSet, entry for entry.
C14_CsvHeaderRoundTrip ==
    (Rendered("csv") /\ processed_events # <<>>) =>
        Head(CsvRecords(formatted[2])) = output_fields

C14_Witness ==
    /\ Rendered("csv")
    /\ processed_events # <<>>
    /\ Len(output_fields) = 3
    /\ \E j \in 1..3 : CsvNeedsQuote(output_fields[j])
    /\ output_fields[1] # output_fields[2]
    /\ Head(CsvRecords(formatted[2])) = output_fields

\* One event in the plain format: "field: value" for every FieldSet entry
\* in order, separated by ", ".
RECURSIVE PlainLine(_, _)
PlainLine(ev, fields) ==
    IF fields = <<>> THEN <<>>
    ELSE Head(fields) \o <<":", " ">> \o Shown(ev, Head(fields))
             \o (IF Len(fields) > 1
                 THEN <<",", " ">> \o PlainLine(ev, Tail(fields))
                 ELSE <<>>)

RECURSIVE PlainLines(_, _)
PlainLines(events, fields) ==
    IF events = <<>> THEN <<>>
    ELSE PlainLine(Head(events), fields) \o <<"\n">>
             \o PlainLines(Tail(events), fields)

\* C15: the plain text is one line per event in order, of the form
\* "field1: value1, field2: value2, ..." over the FieldSet with an absent
\* key shown as an empty value, each line ended by a newline; an empty
\* event sequence renders as the empty string.
C15_PlainIsOneLinePerEvent ==
    Rendered("plain") =>
        /\ formatted[2] = PlainLines(processed_events, output_fields)
        /\ processed_events = <<>> => formatted[2] = <<>>
        /\ processed_events # <<>> => formatted[2][Len(formatted[2])] = "\n"

C15_Witness ==
    /\ Rendered("plain")
    /\ Len(processed_events) = 2
    /\ Len(output_fields) = 3
    /\ \E j \in 1..3 : ~DictHas(processed_events[1], output_fields[j])
    /\ \E j \in 1..3 : DictHas(processed_events[2], output_fields[j])

\* C16: a format outside meshtastic, json, csv and plain makes
\* format_events raise a ValueError whose message names the value given and
\* lists the four identifiers, and no text is returned or printed.
C16_UnknownFormatRaisesValueError ==
    (pc # "format_events"
        /\ format_type \notin {"meshtastic", "json", "csv", "plain"}) =>
        /\ pc = "ValueError"
        /\ IsValueError(formatted)
        /\ \E i \in 1..Len(formatted[2]) : formatted[2][i] = format_type
        /\ \A name \in {"meshtastic", "json", "csv", "plain"} :
               \E i \in 3..Len(formatted[2]) : formatted[2][i] = name
        /\ stdout = <<>>

C16_Witness ==
    /\ pc = "ValueError"
    /\ format_type = "xml"
    /\ processed_events # <<>>
    /\ IsValueError(formatted)

----------------------------------------------------------------------------
(* Configuration: the constants of src/src/config.py and the readers of    *)
(* src/src/config_loader.py.  Option values are plain strings; a parsed    *)
(* configuration file is a JSON value, a map when the file is well formed. *)

ValidDateRanges ==
    { "today", "tomorrow", "this-week", "next-week", "this-month",
      "next-month", "all" }

DefaultDateRange == "today"

ValidCategories ==
    { "entertainment", "arts-and-crafts", "health-and-wellness",
      "recreation", "social-clubs", "special-events", "sports", "all" }

DefaultCategory == "entertainment"

ValidLocations ==
    { "town-squares", "Lake+Sumter+Landing+Market+Square",
      "Spanish+Springs+Town+Square", "Brownwood+Paddock+Square",
      "Sawgrass+Grove", "The+Show+Kitchen+at+Sawgrass+Grove",
      "entertainment", "The+Sharon", "The+Studio+Theatre+at+Tierra+Del+Sol",
      "sports-recreation", "Savannah+Recreation", "sports", "executive-golf",
      "Polo+Club", "all" }

DefaultLocation == "town-squares"

DefaultFormat == "meshtastic"

\* DEFAULT_VENUE_MAPPINGS, in insertion order.
DefaultVenueMappings ==
    << <<<<"B", "r", "o", "w", "n", "w", "o", "o", "d">>,
         Str(<<"B", "r", "o", "w", "n", "w", "o", "o", "d">>)>>,
       <<<<"S", "a", "w", "g", "r", "a", "s", "s">>,
         Str(<<"S", "a", "w", "g", "r", "a", "s", "s">>)>>,
       <<<<"S", "p", "a", "n", "i", "s", "h", " ", "S", "p", "r", "i", "n", "g", "s">>,
         Str(<<"S", "p", "a", "n", "i", "s", "h", " ", "S", "p", "r", "i", "n", "g", "s">>)>>,
       <<<<"L", "a", "k", "e", " ", "S", "u", "m", "t", "e", "r">>,
         Str(<<"L", "a", "k", "e", " ", "S", "u", "m", "t", "e", "r">>)>> >>

DefaultOutputFields == <<sLocationTitle, sTitle>>

AvailableFields ==
    { <<"t", "i", "t", "l", "e">>,
      <<"d", "e", "s", "c", "r", "i", "p", "t", "i", "o", "n">>,
      <<"e", "x", "c", "e", "r", "p", "t">>,
      <<"c", "a", "t", "e", "g", "o", "r", "y">>,
      <<"s", "u", "b", "c", "a", "t", "e", "g", "o", "r", "i", "e", "s">>,
      <<"s", "t", "a", "r", "t", ".", "d", "a", "t", "e">>,
      <<"e", "n", "d", ".", "d", "a", "t", "e">>,
      <<"a", "l", "l", "D", "a", "y">>,
      <<"c", "a", "n", "c", "e", "l", "l", "e", "d">>,
      <<"f", "e", "a", "t", "u", "r", "e", "d">>,
      <<"l", "o", "c", "a", "t", "i", "o", "n", ".", "t", "i", "t", "l", "e">>,
      <<"l", "o", "c", "a", "t", "i", "o", "n", ".", "c", "a", "t", "e", "g", "o", "r", "y">>,
      <<"l", "o", "c", "a", "t", "i", "o", "n", ".", "i", "d">>,
      <<"a", "d", "d", "r", "e", "s", "s", ".", "s", "t", "r", "e", "e", "t", "A", "d", "d", "r", "e", "s", "s">>,
      <<"a", "d", "d", "r", "e", "s", "s", ".", "l", "o", "c", "a", "l", "i", "t", "y">>,
      <<"a", "d", "d", "r", "e", "s", "s", ".", "r", "e", "g", "i", "o", "n">>,
      <<"a", "d", "d", "r", "e", "s", "s", ".", "p", "o", "s", "t", "a", "l", "C", "o", "d", "e">>,
      <<"a", "d", "d", "r", "e", "s", "s", ".", "c", "o", "u", "n", "t", "r", "y">>,
      <<"i", "m", "a", "g", "e">>,
      <<"u", "r", "l">>,
      <<"o", "t", "h", "e", "r", "I", "n", "f", "o">>,
      <<"i", "d">> }

\* load_config, lines 34-45, by what it finds at config.yaml: no file, a
\* file that cannot be read, a file that is not YAML, or a YAML document
\* (Null for an empty file).
LoadConfig(file) ==
    IF file[1] \in {"missing", "unreadable", "invalid_yaml"} THEN EmptyMap
    ELSE IF IsNull(file[2]) THEN EmptyMap
    ELSE file[2]

\* config.get exists only on a dict: on a list or a scalar the attribute
\* lookup raises AttributeError.
HasGet(config) == IsMap(config)

\* get_default: config.get(key, fallback).
GetDefault(config, key, fallback) ==
    IF key \in DOMAIN config[2] THEN config[2][key] ELSE fallback

\* get_output_fields: the configured list when it is a list of strings,
\* the fallback otherwise.
GetOutputFields(config, fallback) ==
    IF "output_fields" \notin DOMAIN config[2] THEN fallback
    ELSE LET configured == config[2]["output_fields"]
         IN  IF ~IsList(configured) THEN fallback
             ELSE IF \E i \in 1..Len(configured[2]) : ~IsStr(configured[2][i])
             THEN fallback
             ELSE [i \in 1..Len(configured[2]) |-> configured[2][i][2]]

\* The position of the first sep at or after position i, or one past the
\* end of s.
NextSep(s, sep, i) ==
    IF \E j \in i..Len(s) : s[j] = sep
    THEN CHOOSE j \in i..Len(s) : s[j] = sep /\ \A k \in i..(j - 1) : s[k] # sep
    ELSE Len(s) + 1

\* s.split(sep) from position i on, for a one-character separator.
RECURSIVE SplitOn(_, _, _)
SplitOn(s, sep, i) ==
    LET j == NextSep(s, sep, i)
    IN  <<SubSeq(s, i, j - 1)>>
            \o (IF j > Len(s) THEN <<>> ELSE SplitOn(s, sep, j + 1))

IsSpace(c) == c \in {" ", "\t", "\n", "\r"}

\* s.strip()
Strip(s) ==
    IF \A i \in 1..Len(s) : IsSpace(s[i]) THEN <<>>
    ELSE LET first == CHOOSE i \in 1..Len(s) :
                          ~IsSpace(s[i]) /\ \A k \in 1..(i - 1) : IsSpace(s[k])
             last  == CHOOSE i \in 1..Len(s) :
                          ~IsSpace(s[i]) /\ \A k \in (i + 1)..Len(s) : IsSpace(s[k])
         IN  SubSeq(s, first, last)

\* [x for x in xs if keep(x)], for keep given as a set.
RECURSIVE FilterIn(_, _)
FilterIn(xs, keep) ==
    IF xs = <<>> THEN <<>>
    ELSE (IF Head(xs) \in keep THEN <<Head(xs)>> ELSE <<>>)
             \o FilterIn(Tail(xs), keep)

\* Lines 114 and 117-125: the stripped, non-empty pieces of --fields.
CliFields(text) ==
    LET pieces   == SplitOn(text, ",", 1)
        stripped == [i \in 1..Len(pieces) |-> Strip(pieces[i])]
    IN  FilterIn(stripped, { stripped[i] : i \in 1..Len(stripped) } \ {<<>>})

ValidFields(text) == FilterIn(CliFields(text), AvailableFields)

\* main, lines 103-132: the FieldSet main uses, from the loaded
\* configuration and args.fields (Null when the flag is not given).
OutputFields(config, fields) ==
    LET config_fields == GetOutputFields(config, DefaultOutputFields)
        from_config   == IF config_fields # DefaultOutputFields
                         THEN config_fields ELSE DefaultOutputFields
    IN  IF ~Truthy(fields) THEN from_config
        ELSE IF ValidFields(fields[2]) # <<>> THEN ValidFields(fields[2])
        ELSE from_config

----------------------------------------------------------------------------
(* The URLs of src/src/config.py.  A filter value is one of the option    *)
(* names above; a URL is the characters Python concatenates.               *)

\* The characters of a filter value.
Chars(name) ==
    CASE name = "today" ->
             <<"t", "o", "d", "a", "y">>
      [] name = "tomorrow" ->
             <<"t", "o", "m", "o", "r", "r", "o", "w">>
      [] name = "this-week" ->
             <<"t", "h", "i", "s", "-", "w", "e", "e", "k">>
      [] name = "next-week" ->
             <<"n", "e", "x", "t", "-", "w", "e", "e", "k">>
      [] name = "this-month" ->
             <<"t", "h", "i", "s", "-", "m", "o", "n", "t", "h">>
      [] name = "next-month" ->
             <<"n", "e", "x", "t", "-", "m", "o", "n", "t", "h">>
      [] name = "all" ->
             <<"a", "l", "l">>
      [] name = "entertainment" ->
             <<"e", "n", "t", "e", "r", "t", "a", "i", "n", "m", "e", "n", "t">>
      [] name = "arts-and-crafts" ->
             <<"a", "r", "t", "s", "-", "a", "n", "d", "-", "c", "r", "a", "f", "t", "s">>
      [] name = "health-and-wellness" ->
             <<"h", "e", "a", "l", "t", "h", "-", "a", "n", "d", "-", "w", "e", "l", "l", "n", "e", "s", "s">>
      [] name = "recreation" ->
             <<"r", "e", "c", "r", "e", "a", "t", "i", "o", "n">>
      [] name = "social-clubs" ->
             <<"s", "o", "c", "i", "a", "l", "-", "c", "l", "u", "b", "s">>
      [] name = "special-events" ->
             <<"s", "p", "e", "c", "i", "a", "l", "-", "e", "v", "e", "n", "t", "s">>
      [] name = "sports" ->
             <<"s", "p", "o", "r", "t", "s">>
      [] name = "town-squares" ->
             <<"t", "o", "w", "n", "-", "s", "q", "u", "a", "r", "e", "s">>
      [] name = "Lake+Sumter+Landing+Market+Square" ->
             <<"L", "a", "k", "e", "+", "S", "u", "m", "t", "e", "r", "+", "L", "a", "n", "d", "i", "n", "g", "+", "M", "a", "r", "k", "e", "t", "+", "S", "q", "u", "a", "r", "e">>
      [] name = "Spanish+Springs+Town+Square" ->
             <<"S", "p", "a", "n", "i", "s", "h", "+", "S", "p", "r", "i", "n", "g", "s", "+", "T", "o", "w", "n", "+", "S", "q", "u", "a", "r", "e">>
      [] name = "Brownwood+Paddock+Square" ->
             <<"B", "r", "o", "w", "n", "w", "o", "o", "d", "+", "P", "a", "d", "d", "o", "c", "k", "+", "S", "q", "u", "a", "r", "e">>
      [] name = "Sawgrass+Grove" ->
             <<"S", "a", "w", "g", "r", "a", "s", "s", "+", "G", "r", "o", "v", "e">>
      [] name = "The+Show+Kitchen+at+Sawgrass+Grove" ->
             <<"T", "h", "e", "+", "S", "h", "o", "w", "+", "K", "i", "t", "c", "h", "e", "n", "+", "a", "t", "+", "S", "a", "w", "g", "r", "a", "s", "s", "+", "G", "r", "o", "v", "e">>
      [] name = "The+Sharon" ->
             <<"T", "h", "e", "+", "S", "h", "a", "r", "o", "n">>
      [] name = "The+Studio+Theatre+at+Tierra+Del+Sol" ->
             <<"T", "h", "e", "+", "S", "t", "u", "d", "i", "o", "+", "T", "h", "e", "a", "t", "r", "e", "+", "a", "t", "+", "T", "i", "e", "r", "r", "a", "+", "D", "e", "l", "+", "S", "o", "l">>
      [] name = "sports-recreation" ->
             <<"s", "p", "o", "r", "t", "s", "-", "r", "e", "c", "r", "e", "a", "t", "i", "o", "n">>
      [] name = "Savannah+Recreation" ->
             <<"S", "a", "v", "a", "n", "n", "a", "h", "+", "R", "e", "c", "r", "e", "a", "t", "i", "o", "n">>
      [] name = "executive-golf" ->
             <<"e", "x", "e", "c", "u", "t", "i", "v", "e", "-", "g", "o", "l", "f">>
      [] name = "Polo+Club" ->
             <<"P", "o", "l", "o", "+", "C", "l", "u", "b">>

sCalendarBase ==
    <<"h", "t", "t", "p", "s", ":", "/", "/", "w", "w", "w", ".", "t", "h", "e", "v", "i", "l", "l", "a", "g", "e", "s", ".", "c", "o", "m", "/", "c", "a", "l", "e", "n", "d", "a", "r", "/", "#", "/", "?">>

sApiBase ==
    <<"h", "t", "t", "p", "s", ":", "/", "/", "a", "p", "i", ".", "v", "2", ".", "t", "h", "e", "v", "i", "l", "l", "a", "g", "e", "s", ".", "c", "o", "m", "/", "e", "v", "e", "n", "t", "s", "/", "?">>

sAmp == <<"&">>

sDateRangeEq == <<"d", "a", "t", "e", "R", "a", "n", "g", "e", "=">>

sCategoriesEq == <<"c", "a", "t", "e", "g", "o", "r", "i", "e", "s", "=">>

sLocationCategoriesEq ==
    <<"l", "o", "c", "a", "t", "i", "o", "n", "C", "a", "t", "e", "g", "o", "r", "i", "e", "s", "=">>

sCancelledFalse ==
    <<"c", "a", "n", "c", "e", "l", "l", "e", "d", "=", "f", "a", "l", "s", "e">>

sStartRow == <<"s", "t", "a", "r", "t", "R", "o", "w", "=", "0">>

sEndRow == <<"e", "n", "d", "R", "o", "w", "=", "2", "4">>

sSubcategoriesAnd ==
    <<"s", "u", "b", "c", "a", "t", "e", "g", "o", "r", "i", "e", "s", "Q", "u", "e", "r", "y", "T", "y", "p", "e", "=", "a", "n", "d">>

\* base.rstrip("?"): the base without its trailing question marks.
RECURSIVE RStripQuestion(_)
RStripQuestion(s) ==
    IF s # <<>> /\ s[Len(s)] = "?" THEN RStripQuestion(SubSeq(s, 1, Len(s) - 1))
    ELSE s

\* Lines 125-135 and 159-169: the parameters of the filters that are set.
FilterParamsKeepAll(date_range, category, location) ==
    <<sDateRangeEq \o Chars(date_range), sCategoriesEq \o Chars(category),
      sLocationCategoriesEq \o Chars(location)>>

FilterParams(date_range, category, location) ==
    (IF date_range # "all" THEN <<sDateRangeEq \o Chars(date_range)>>
     ELSE <<>>)
    \o (IF category # "all" THEN <<sCategoriesEq \o Chars(category)>>
        ELSE <<>>)
    \o (IF location # "all" THEN <<sLocationCategoriesEq \o Chars(location)>>
        ELSE <<>>)

\* get_calendar_url, lines 107-137.
GetCalendarUrl(date_range, category, location) ==
    LET params == FilterParams(date_range, category, location)
    IN  IF params # <<>> THEN sCalendarBase \o JoinStr(params, sAmp)
        ELSE RStripQuestion(sCalendarBase)

\* get_api_url, lines 139-174.
GetApiUrl(date_range, category, location) ==
    LET params == <<sCancelledFalse, sStartRow, sEndRow>>
                  \o FilterParams(date_range, category, location)
                  \o <<sSubcategoriesAnd>>
    IN  sApiBase \o JoinStr(params, sAmp)

----------------------------------------------------------------------------
(* main of src/villages_events.py, from the configuration file to the     *)
(* call of process_events.  The command line is a sequence of             *)
(* <<flag, value>> pairs, read left to right as argparse reads it.        *)

ChoiceFlags == {"--format", "--date-range", "--category", "--location"}

\* The choices= of each enumerated option, lines 47-70.
Choices(flag) ==
    CASE flag = "--format"     -> ValidFormats
      [] flag = "--date-range" -> ValidDateRanges
      [] flag = "--category"   -> ValidCategories
      [] flag = "--location"   -> ValidLocations

\* The parser that holds its default format to the choices as well.
DefaultArgsChecked(config) ==
    [format     |-> IF GetDefault(config, "format", DefaultFormat)
                           \in ValidFormats
                    THEN GetDefault(config, "format", DefaultFormat)
                    ELSE DefaultFormat,
     date_range |-> GetDefault(config, "date_range", DefaultDateRange),
     category   |-> GetDefault(config, "category", DefaultCategory),
     location   |-> GetDefault(config, "location", DefaultLocation),
     config     |-> "config.yaml",
     raw        |-> FALSE,
     fields     |-> Null]

\* Lines 38-41 and the default= of each option: the namespace before any
\* flag is read.  A default is not checked against choices.
DefaultArgs(config) ==
    [format     |-> GetDefault(config, "format", DefaultFormat),
     date_range |-> GetDefault(config, "date_range", DefaultDateRange),
     category   |-> GetDefault(config, "category", DefaultCategory),
     location   |-> GetDefault(config, "location", DefaultLocation),
     config     |-> "config.yaml",
     raw        |-> FALSE,
     fields     |-> Null]

\* The namespace after the option at position i has been stored.
Store(ns, opt) ==
    CASE opt[1] = "--format"     -> [ns EXCEPT !.format = opt[2]]
      [] opt[1] = "--date-range" -> [ns EXCEPT !.date_range = opt[2]]
      [] opt[1] = "--category"   -> [ns EXCEPT !.category = opt[2]]
      [] opt[1] = "--location"   -> [ns EXCEPT !.location = opt[2]]
      [] opt[1] = "--config"     -> [ns EXCEPT !.config = opt[2]]
      [] opt[1] = "--raw"        -> [ns EXCEPT !.raw = TRUE]
      [] opt[1] = "--fields"     -> [ns EXCEPT !.fields = Str(opt[2])]

\* parser.parse_args(): <<"ok", namespace>>, or <<"SystemExit", code>> when
\* --help is met (code 0) or a value is outside its choices (code 2),
\* whichever comes first on the command line.
RECURSIVE ParseArgs(_, _, _)
ParseArgs(line, i, ns) ==
    IF i > Len(line) THEN <<"ok", ns>>
    ELSE IF line[i][1] = "--help" THEN <<"SystemExit", 0>>
    ELSE IF line[i][1] \in ChoiceFlags /\ line[i][2] \notin Choices(line[i][1])
    THEN <<"SystemExit", 2>>
    ELSE ParseArgs(line, i + 1, Store(ns, line[i]))

\* The text of parser.print_help(), abridged to its first word.
sUsage == <<"u", "s", "a", "g", "e", ":">>

sBogus == <<"b", "o", "g", "u", "s">>

MainArgvs ==
    { <<>>,
      << <<"--format", "json">> >>,
      << <<"--format", "xml">> >>,
      << <<"--date-range", "yesterday">> >>,
      << <<"--category", "music">>, <<"--help", "">> >>,
      << <<"--help", "">>, <<"--location", "moon">> >>,
      << <<"--location", "mars">>, <<"--raw", "">> >>,
      << <<"--raw", "">>, <<"--format", "csv">> >>,
      << <<"--raw", "">> >>,
      << <<"--fields", sTitle \o <<",", " ">> \o sBogus \o <<" ", ",">>
                           \o sLocationTitle>>,
         <<"--format", "json">> >>,
      << <<"--fields", sBogus \o <<",", ",", " ">> \o sA>> >>,
      << <<"--fields", <<>>>>, <<"--format", "plain">> >>,
      << <<"--config", "other.yaml">>, <<"--date-range", "all">> >>,
      << <<"--format", "json">>, <<"--config", "other.yaml">> >>,
      << <<"--format", "csv">>, <<"--category", "sports">>,
         <<"--location", "all">> >> }

\* What config.yaml holds when main starts.
ConfigFiles ==
    { <<"missing", Null>>,
      <<"unreadable", Null>>,
      <<"invalid_yaml", Null>>,
      <<"yaml", Null>>,
      <<"yaml", Map([format |-> "xml"])>>,
      <<"yaml", Map([format |-> "json",
                     output_fields |-> List(<<Str(sTitle)>>)])>>,
      <<"yaml", Map([date_range |-> "all",
                     output_fields |-> Num(5),
                     venue_mappings |-> << <<sA, Str(sX)>> >>])>>,
      <<"yaml", List(<<Str(sA)>>)>>,
      <<"yaml", Str(sAB)>> }

\* The paths a command line can name, and the one load_config reads by
\* default (config_loader.py, line 19).
DefaultConfigPath == "config.yaml"

ConfigPaths == {DefaultConfigPath, "other.yaml"}

\* What the file named by --config holds when it is not config.yaml.
OtherFiles ==
    { <<"missing", Null>>,
      <<"yaml", Map([format |-> "plain", date_range |-> "tomorrow"])>> }

\* The files on disk when main starts.
ConfigDisks ==
    { f \in [ConfigPaths -> ConfigFiles \cup OtherFiles] :
        /\ f[DefaultConfigPath] \in ConfigFiles
        /\ f["other.yaml"] \in OtherFiles }

sSawgrassGrove ==
    <<"S", "a", "w", "g", "r", "a", "s", "s", " ", "G", "r", "o", "v", "e">>

\* What fetch_events can return: always a dict (api_client.py, 60-62).
MainResponses ==
    { Map(sEvents :> List(<<
          Map((sLocation :> Map(sTitle :> Str(sSawgrassGrove)))
                  @@ (sTitle :> Str(sAB))),
          Map((sLocation :> Map(sTitle :> Num(5))) @@ (sTitle :> Str(sA))) >>)),
      Map(sEvents :> List(<<>>)),
      Map(sData :> List(<<>>)),
      Map(sEvents :> Str(sAB)) }

InitMain ==
    /\ pc = "main"
    /\ argv \in MainArgvs
    /\ files \in ConfigDisks
    /\ calendar_url = <<>> /\ api_url = <<>>
    /\ yaml_config = Unset /\ args = Unset /\ formatted = Unset
    /\ network = <<>> /\ session = "none"
    /\ api_response = Unset /\ output_fields = <<>> /\ venue_mappings = <<>>
    /\ format_type = ""
    /\ event = Unset /\ field_path = <<>> /\ extracted = Unset
    /\ venue = Unset /\ abbreviated = Unset
    /\ idx = 0 /\ fi = 0 /\ event_data = <<>>
    /\ processed_events = <<>> /\ warnings = <<>>
    /\ stdout = <<>> /\ exit_code = -1

\* The variables of process_events and of the renderer.
procVars == <<event, field_path, extracted, venue, abbreviated, idx, fi,
              event_data, processed_events, warnings, formatted>>


\* The path the command line names with --config, config.yaml without it.
NamedConfigPath(line) ==
    IF \E i \in 1..Len(line) : line[i][1] = "--config"
    THEN line[CHOOSE i \in 1..Len(line) : line[i][1] = "--config"][2]
    ELSE DefaultConfigPath

\* The main that loads the file --config names.
MainLoadConfigFromFlag ==
    /\ pc = "main"
    /\ yaml_config' = LoadConfig(files[NamedConfigPath(argv)])
    /\ pc' = "get_defaults"
    /\ UNCHANGED <<api_response, output_fields, venue_mappings, format_type,
                   stdout, exit_code, argv, args, network, session>>
    /\ UNCHANGED <<files, calendar_url, api_url>>
    /\ UNCHANGED procVars

\* Line 35: the configuration is loaded from config.yaml, whatever the
\* command line says.
MainLoadConfig ==
    /\ pc = "main"
    /\ yaml_config' = LoadConfig(files[DefaultConfigPath])
    /\ pc' = "get_defaults"
    /\ UNCHANGED <<api_response, output_fields, venue_mappings, format_type,
                   stdout, exit_code, argv, args, network, session>>
    /\ UNCHANGED <<files, calendar_url, api_url>>
    /\ UNCHANGED procVars

\* Lines 38-41 on a dict: the four defaults are read.
MainGetDefaults ==
    /\ pc = "get_defaults"
    /\ HasGet(yaml_config)
    /\ pc' = "parse_args"
    /\ UNCHANGED <<api_response, output_fields, venue_mappings, format_type,
                   stdout, exit_code, yaml_config, argv, args, network, session>>
    /\ UNCHANGED <<files, calendar_url, api_url>>
    /\ UNCHANGED procVars

\* Line 38 on a list or a scalar: config.get raises AttributeError outside
\* every try block, and the exception leaves main.
MainGetDefaultsRaises ==
    /\ pc = "get_defaults"
    /\ ~HasGet(yaml_config)
    /\ pc' = "AttributeError"
    /\ UNCHANGED <<api_response, output_fields, venue_mappings, format_type,
                   stdout, exit_code, yaml_config, argv, args, network, session>>
    /\ UNCHANGED <<files, calendar_url, api_url>>
    /\ UNCHANGED procVars

\* Lines 87-88: the command line parses.
MainParseArgs ==
    /\ pc = "parse_args"
    /\ LET parsed == ParseArgs(argv, 1, DefaultArgs(yaml_config))
       IN  /\ parsed[1] = "ok"
           /\ args' = parsed[2]
           /\ format_type' = parsed[2].format
    /\ pc' = "resolve"
    /\ UNCHANGED <<api_response, output_fields, venue_mappings, stdout,
                   exit_code, yaml_config, argv, network, session>>
    /\ UNCHANGED <<files, calendar_url, api_url>>
    /\ UNCHANGED procVars

\* Lines 89-92: argparse exits; main returns 2 for an error and 0 for
\* --help, whose text argparse has printed.
MainParseArgsExits ==
    /\ pc = "parse_args"
    /\ LET parsed == ParseArgs(argv, 1, DefaultArgs(yaml_config))
       IN  /\ parsed[1] = "SystemExit"
           /\ exit_code' = IF parsed[2] # 0 THEN 2 ELSE 0
           /\ stdout' = IF parsed[2] = 0 THEN Append(stdout, sUsage) ELSE stdout
    /\ pc' = "exit"
    /\ UNCHANGED <<api_response, output_fields, venue_mappings, format_type,
                   yaml_config, argv, args, network, session>>
    /\ UNCHANGED <<files, calendar_url, api_url>>
    /\ UNCHANGED procVars

\* Lines 96-136: venue mappings and the FieldSet are settled.
MainResolve ==
    /\ pc = "resolve"
    /\ venue_mappings' =
           GetDefault(yaml_config, "venue_mappings", DefaultVenueMappings)
    /\ output_fields' = OutputFields(yaml_config, args.fields)
    /\ calendar_url' =
           GetCalendarUrl(args.date_range, args.category, args.location)
    /\ api_url' = GetApiUrl(args.date_range, args.category, args.location)
    /\ pc' = "fetch_auth_token"
    /\ UNCHANGED <<api_response, format_type, stdout, exit_code, yaml_config,
                   argv, args, network, session, files>>
    /\ UNCHANGED procVars

\* Line 140: the token is fetched.
MainFetchToken ==
    /\ pc = "fetch_auth_token"
    /\ network' = Append(network, <<"fetch_auth_token", "ok">>)
    /\ pc' = "establish_session"
    /\ UNCHANGED <<api_response, output_fields, venue_mappings, format_type,
                   stdout, exit_code, yaml_config, argv, args, session>>
    /\ UNCHANGED <<files, calendar_url, api_url>>
    /\ UNCHANGED procVars

\* Line 140: fetch_auth_token raises, a TokenFetchError or something it
\* did not foresee.
MainFetchTokenRaises ==
    /\ pc = "fetch_auth_token"
    /\ \E raised \in {"TokenFetchError", "Exception"} :
           /\ network' = Append(network, <<"fetch_auth_token", raised>>)
           /\ pc' = raised
    /\ UNCHANGED <<api_response, output_fields, venue_mappings, format_type,
                   stdout, exit_code, yaml_config, argv, args, session>>
    /\ UNCHANGED <<files, calendar_url, api_url>>
    /\ UNCHANGED procVars

\* Lines 143-146: the session scope is entered and the warm-up succeeds.
MainEstablishSession ==
    /\ pc = "establish_session"
    /\ session' = "open"
    /\ network' = Append(network, <<"establish_session", "ok">>)
    /\ pc' = "fetch_events"
    /\ UNCHANGED <<api_response, output_fields, venue_mappings, format_type,
                   stdout, exit_code, yaml_config, argv, args>>
    /\ UNCHANGED <<files, calendar_url, api_url>>
    /\ UNCHANGED procVars

\* Lines 143-145: the warm-up raises inside the session scope.
MainEstablishSessionRaises ==
    /\ pc = "establish_session"
    /\ session' = "open"
    /\ network' = Append(network, <<"establish_session", "SessionError">>)
    /\ pc' = "SessionError"
    /\ UNCHANGED <<api_response, output_fields, venue_mappings, format_type,
                   stdout, exit_code, yaml_config, argv, args>>
    /\ UNCHANGED <<files, calendar_url, api_url>>
    /\ UNCHANGED procVars

\* Lines 153-158: the API answers with a JSON object.
MainFetchEvents ==
    /\ pc = "fetch_events"
    /\ api_response' \in MainResponses
    /\ network' = Append(network, <<"fetch_events", "ok">>)
    /\ pc' = "fetched"
    /\ UNCHANGED <<output_fields, venue_mappings, format_type, stdout,
                   exit_code, yaml_config, argv, args, session>>
    /\ UNCHANGED <<files, calendar_url, api_url>>
    /\ UNCHANGED procVars

\* A failed API call is logged and tried again.
MainFetchEventsRetries ==
    /\ pc = "fetch_events"
    /\ network' = Append(network, <<"fetch_events", "APIError">>)
    /\ pc' = "fetch_events"
    /\ UNCHANGED <<api_response, output_fields, venue_mappings, format_type,
                   stdout, exit_code, yaml_config, argv, args, session>>
    /\ UNCHANGED <<files, calendar_url, api_url>>
    /\ UNCHANGED procVars

\* Lines 153-158: fetch_events raises APIError.
MainFetchEventsRaises ==
    /\ pc = "fetch_events"
    /\ network' = Append(network, <<"fetch_events", "APIError">>)
    /\ pc' = "APIError"
    /\ UNCHANGED <<api_response, output_fields, venue_mappings, format_type,
                   stdout, exit_code, yaml_config, argv, args, session>>
    /\ UNCHANGED <<files, calendar_url, api_url>>
    /\ UNCHANGED procVars

\* Honours --raw only after the events have been projected.
RawRequestedNever(ns) == FALSE

RawRequested(ns) == ns.raw

\* The early return that leaves the session as it is.
MainRawKeepsSession ==
    /\ pc = "fetched"
    /\ RawRequested(args)
    /\ stdout' = Append(stdout, JsonDump(api_response, 0) \o <<"\n">>)
    /\ exit_code' = 0
    /\ pc' = "exit"
    /\ UNCHANGED <<api_response, output_fields, venue_mappings, format_type,
                   yaml_config, argv, args, network, session>>
    /\ UNCHANGED <<files, calendar_url, api_url>>
    /\ UNCHANGED procVars

\* Lines 161-164: with --raw the response is printed as it came and main
\* returns 0 from inside the session scope.
MainRaw ==
    /\ pc = "fetched"
    /\ RawRequested(args)
    /\ stdout' = Append(stdout, JsonDump(api_response, 0) \o <<"\n">>)
    /\ exit_code' = 0
    /\ session' = Released(session)
    /\ pc' = "exit"
    /\ UNCHANGED <<api_response, output_fields, venue_mappings, format_type,
                   yaml_config, argv, args, network>>
    /\ UNCHANGED <<files, calendar_url, api_url>>
    /\ UNCHANGED procVars

\* Lines 166-169: without --raw, process_events is called.
MainProcess ==
    /\ pc = "fetched"
    /\ ~RawRequested(args)
    /\ pc' = "process_events"
    /\ UNCHANGED <<api_response, output_fields, venue_mappings, format_type,
                   stdout, exit_code, yaml_config, argv, args, network, session>>
    /\ UNCHANGED <<files, calendar_url, api_url>>
    /\ UNCHANGED procVars

\* Lines 189-192: any other exception is logged and main returns 1.
MainHandleUnexpected ==
    /\ pc = "Exception"
    /\ exit_code' = 1
    /\ session' = Released(session)
    /\ pc' = "exit"
    /\ UNCHANGED <<api_response, output_fields, venue_mappings, format_type,
                   stdout, yaml_config, argv, args, network>>
    /\ UNCHANGED <<files, calendar_url, api_url>>
    /\ UNCHANGED procVars

NextMain ==
    \/ MainLoadConfig
    \/ MainGetDefaults
    \/ MainGetDefaultsRaises
    \/ MainParseArgs
    \/ MainParseArgsExits
    \/ MainResolve
    \/ MainFetchToken
    \/ MainFetchTokenRaises
    \/ MainEstablishSession
    \/ MainEstablishSessionRaises
    \/ MainFetchEvents
    \/ MainFetchEventsRaises
    \/ MainRaw
    \/ MainProcess
    \/ RaiseProcessingError
    \/ EnterLoop
    \/ ProjectField
    \/ SkipEvent
    \/ AppendEvent
    \/ ReturnEvents
    \/ MainPrint
    \/ MainFormatError
    \/ MainHandleError
    \/ MainHandleUnexpected

SpecMain == InitMain /\ [][NextMain]_vars

----------------------------------------------------------------------------
(* Properties of main *)

\* main has returned or an exception has left it.
Terminated == pc \in {"exit", "AttributeError"}

\* The command line holds a value outside the closed set of its option,
\* and no --help before it.
InvalidChoiceAt(i) ==
    /\ \/ argv[i][1] = "--format"
          /\ argv[i][2] \notin {"meshtastic", "json", "csv", "plain"}
       \/ argv[i][1] = "--date-range" /\ argv[i][2] \notin ValidDateRanges
       \/ argv[i][1] = "--category" /\ argv[i][2] \notin ValidCategories
       \/ argv[i][1] = "--location" /\ argv[i][2] \notin ValidLocations
    /\ \A k \in 1..(i - 1) : argv[k][1] # "--help"

HasInvalidChoice == \E i \in 1..Len(argv) : InvalidChoiceAt(i)

\* C17: a command-line value outside the closed set of --format,
\* --date-range, --category or --location makes main return 2 without any
\* token fetch, session warm-up or API call in that run.
C17_InvalidChoiceReturnsTwo ==
    (Terminated /\ HasInvalidChoice) => (exit_code = 2 /\ network = <<>>)

\* The three network calls have been made and the API has answered.
FetchedOk == Len(network) = 3 /\ network[3][2] = "ok"

\* A step of the run has failed: a network call, the structural check of
\* the response, or the renderer.
RunFailed ==
    \/ network # <<>> /\ network[Len(network)][2] # "ok"
    \/ FetchedOk /\ ~args.raw /\ RaisesProcessingError(api_response)
    \/ formatted # Unset /\ IsValueError(formatted)

\* C18: when the token fetch, the session warm-up, the API call or the
\* structural check of the response fails, or another exception is raised
\* after argument parsing, main returns 1 and stdout has received nothing.
C18_FailureReturnsOneSilently ==
    /\ pc \in VillagesEventErrors \cup {"Exception"} => stdout = <<>>
    /\ (pc = "exit" /\ RunFailed) => (exit_code = 1 /\ stdout = <<>>)
    /\ (pc = "exit" /\ exit_code = 1) => stdout = <<>>

C18_Witness ==
    /\ pc = "exit"
    /\ FetchedOk
    /\ ~args.raw
    /\ RaisesProcessingError(api_response)
    /\ exit_code = 1

\* C19: with --raw, once the API has answered, main prints the response as
\* indented JSON and returns 0; no event is projected and nothing is
\* rendered, so the format and the FieldSet do not show in the output, and
\* a response without a list of events is printed like any other.
C19_RawPrintsResponseUntouched ==
    (pc = "exit" /\ FetchedOk /\ args.raw) =>
        /\ exit_code = 0
        /\ stdout = <<JsonDump(api_response, 0) \o <<"\n">> >>
        /\ idx = 0 /\ processed_events = <<>> /\ warnings = <<>>
        /\ formatted = Unset

C19_Witness ==
    /\ pc = "exit"
    /\ FetchedOk
    /\ args.raw
    /\ RaisesProcessingError(api_response)
    /\ format_type = "csv"
    /\ exit_code = 0

\* Lines 96-136 have run.
Resolved == pc = "fetch_auth_token" \/ network # <<>>

\* C20: with a --fields override the FieldSet is the override's known
\* entries in the order given, and the default FieldSet when none of its
\* entries is known, whatever the configuration file supplies.
C20_OverrideOrDefault ==
    (Resolved /\ Truthy(args.fields)) =>
        output_fields = IF ValidFields(args.fields[2]) # <<>>
                        THEN ValidFields(args.fields[2])
                        ELSE DefaultOutputFields

----------------------------------------------------------------------------
(* Precedence of the command line, the configuration file and the         *)
(* built-in defaults *)

\* The flag is on the command line.
Given(flag) == \E i \in 1..Len(argv) : argv[i][1] = flag

\* The value of the last occurrence of the flag on the command line.
LastValue(flag) ==
    argv[CHOOSE i \in 1..Len(argv) :
             /\ argv[i][1] = flag
             /\ \A k \in (i + 1)..Len(argv) : argv[k][1] # flag][2]

\* The value the precedence rule gives an enumerated option.
ByPrecedence(flag, key, default) ==
    IF Given(flag) THEN LastValue(flag)
    ELSE IF key \in DOMAIN yaml_config[2] THEN yaml_config[2][key]
    ELSE default

\* The four enumerated options follow the precedence rule.
ChoiceOptionsByPrecedence ==
    /\ format_type = ByPrecedence("--format", "format", DefaultFormat)
    /\ args.format = format_type
    /\ args.date_range
           = ByPrecedence("--date-range", "date_range", DefaultDateRange)
    /\ args.category = ByPrecedence("--category", "category", DefaultCategory)
    /\ args.location = ByPrecedence("--location", "location", DefaultLocation)
    /\ calendar_url
           = GetCalendarUrl(args.date_range, args.category, args.location)
    /\ api_url = GetApiUrl(args.date_range, args.category, args.location)

\* The file supplies output_fields as a list of field names.
FileSuppliesFields ==
    /\ "output_fields" \in DOMAIN yaml_config[2]
    /\ IsList(yaml_config[2]["output_fields"])
    /\ \A i \in 1..Len(yaml_config[2]["output_fields"][2]) :
           IsStr(yaml_config[2]["output_fields"][2][i])

FileFields ==
    [i \in 1..Len(yaml_config[2]["output_fields"][2]) |->
         yaml_config[2]["output_fields"][2][i][2]]

\* C21: for format, date range, category, location and output fields the
\* value main uses is the command-line value when the flag is given,
\* otherwise the value of the configuration file when it supplies one,
\* otherwise the built-in default; a flag is never overridden by the file.
\* For --fields the command-line value is the known entries of the
\* override, and the default FieldSet when it has none.
C21_CliThenFileThenDefault ==
    Resolved =>
        /\ ChoiceOptionsByPrecedence
        /\ output_fields =
               IF Given("--fields")
               THEN IF ValidFields(LastValue("--fields")) # <<>>
                    THEN ValidFields(LastValue("--fields"))
                    ELSE DefaultOutputFields
               ELSE IF FileSuppliesFields THEN FileFields
               ELSE DefaultOutputFields

\* The same rule on the runs whose --fields override, when given, names a
\* known field.
FieldsByPrecedenceWhenKnown ==
    (Resolved /\ (Given("--fields") =>
                      ValidFields(LastValue("--fields")) # <<>>)) =>
        /\ ChoiceOptionsByPrecedence
        /\ output_fields =
               IF Given("--fields") THEN ValidFields(LastValue("--fields"))
               ELSE IF FileSuppliesFields THEN FileFields
               ELSE DefaultOutputFields

\* The file load_config read: main calls it without a path.
LoadedFile == files[DefaultConfigPath]

\* C22: load_config returns a dictionary in every case: the empty one when
\* the file is missing, unreadable, empty or not YAML, and a dictionary of
\* configuration values for every file that parses as YAML, whatever the
\* top-level type of the document.
C22_LoadConfigReturnsDict ==
    pc # "main" =>
        /\ IsMap(yaml_config)
        /\ (LoadedFile[1] # "yaml" \/ IsNull(LoadedFile[2]))
               => yaml_config = EmptyMap
        /\ (LoadedFile[1] = "yaml" /\ IsMap(LoadedFile[2]))
               => yaml_config = LoadedFile[2]

\* The same on the files that are not a YAML list or scalar.
LoadConfigReturnsDictForMaps ==
    (pc # "main" /\ ~(LoadedFile[1] = "yaml" /\ ~IsNull(LoadedFile[2])
                                             /\ ~IsMap(LoadedFile[2]))) =>
        /\ IsMap(yaml_config)
        /\ (LoadedFile[1] # "yaml" \/ IsNull(LoadedFile[2]))
               => yaml_config = EmptyMap
        /\ (LoadedFile[1] = "yaml" /\ IsMap(LoadedFile[2]))
               => yaml_config = LoadedFile[2]

----------------------------------------------------------------------------
(* Specification of a call of get_calendar_url and of get_api_url *)

InitUrl ==
    /\ pc = "get_calendar_url"
    /\ \E d \in ValidDateRanges, c \in ValidCategories, l \in ValidLocations :
           args = [date_range |-> d, category |-> c, location |-> l]
    /\ calendar_url = <<>> /\ api_url = <<>>
    /\ formatted = Unset /\ yaml_config = EmptyMap /\ argv = <<>>
    /\ network = <<>> /\ session = "none" /\ files = <<>>
    /\ api_response = EmptyMap /\ output_fields = <<>>
    /\ format_type = "" /\ idx = 0 /\ fi = 0 /\ event_data = <<>>
    /\ processed_events = <<>> /\ warnings = <<>> /\ stdout = <<>>
    /\ exit_code = -1
    /\ event = Unset /\ field_path = <<>> /\ extracted = Unset
    /\ venue_mappings = <<>> /\ venue = Unset /\ abbreviated = Unset

CallGetCalendarUrl ==
    /\ pc = "get_calendar_url"
    /\ calendar_url' =
           GetCalendarUrl(args.date_range, args.category, args.location)
    /\ pc' = "get_api_url"
    /\ UNCHANGED <<api_response, output_fields, venue_mappings, format_type,
                   event, field_path, extracted, venue, abbreviated, idx, fi,
                   event_data, processed_events, warnings, stdout, exit_code,
                   formatted, yaml_config, argv, args, network, session,
                   files, api_url>>

CallGetApiUrl ==
    /\ pc = "get_api_url"
    /\ api_url' = GetApiUrl(args.date_range, args.category, args.location)
    /\ pc' = "returned"
    /\ UNCHANGED <<api_response, output_fields, venue_mappings, format_type,
                   event, field_path, extracted, venue, abbreviated, idx, fi,
                   event_data, processed_events, warnings, stdout, exit_code,
                   formatted, yaml_config, argv, args, network, session,
                   files, calendar_url>>

NextUrl == CallGetCalendarUrl \/ CallGetApiUrl

SpecUrl == InitUrl /\ [][NextUrl]_vars

\* The filters of a URL: its parameter name and the value it was given.
UrlFilters ==
    { <<sDateRangeEq, args.date_range>>, <<sCategoriesEq, args.category>>,
      <<sLocationCategoriesEq, args.location>> }

\* The text after the first "?" of the URL, cut at every "&".
QueryOf(url) ==
    IF HasChar(url, "?")
    THEN SplitOn(SubSeq(url, NextSep(url, "?", 1) + 1, Len(url)), "&", 1)
    ELSE <<>>

\* The query q of the URL carries name=value, and name only there.
CarriesOnly(url, q, name, value) ==
    /\ OccursIn(name \o Chars(value), url)
    /\ Cardinality({ i \in 1..Len(q) : StartsWith(q[i], name) }) = 1
    /\ \E i \in 1..Len(q) : q[i] = name \o Chars(value)

\* The query q of the URL carries no parameter of that name.
Omits(url, q, name, value) ==
    /\ \A i \in 1..Len(q) : ~StartsWith(q[i], name)
    /\ ~OccursIn(name \o Chars(value), url)

FiltersShown(url) ==
    LET q == QueryOf(url)
    IN  \A f \in UrlFilters :
            IF f[2] # "all" THEN CarriesOnly(url, q, f[1], f[2])
            ELSE Omits(url, q, f[1], f[2])

\* The URL carries the parameter, whole, between two separators.
HasParam(url, param) ==
    LET q == QueryOf(url) IN \E i \in 1..Len(q) : q[i] = param

\* C23: get_calendar_url and get_api_url carry dateRange=<v>,
\* categories=<v> and locationCategories=<v> for exactly the filters whose
\* value is not "all", for every combination of the three filters, and
\* get_api_url always carries cancelled=false and
\* subcategoriesQueryType=and.
C23_UrlsCarryTheSetFilters ==
    /\ pc \in {"get_api_url", "returned"} => FiltersShown(calendar_url)
    /\ pc = "returned" =>
           /\ FiltersShown(api_url)
           /\ HasParam(api_url, sCancelledFalse)
           /\ HasParam(api_url, sSubcategoriesAnd)

\* All three filters are "all": the calendar URL has no query and the API
\* URL has its fixed parameters.
C23_Witness ==
    /\ pc = "returned"
    /\ args.date_range = "all" /\ args.category = "all"
    /\ args.location = "all"
    /\ QueryOf(calendar_url) = <<>>
    /\ Len(QueryOf(api_url)) = 4

----------------------------------------------------------------------------
(* Properties of abbreviate_venue applied twice.  At "returned_again"     *)
(* venue is the first result a and abbreviated is abbreviate_venue(a).    *)

\* The first position of the mapping whose keyword occurs in a.
FirstMatching(mappings, a) ==
    CHOOSE i \in Matching(mappings, a) :
        \A k \in Matching(mappings, a) : i <= k

\* C24 as stated: if a = abbreviate_venue(v) contains no mapped keyword
\* longer than a itself, then abbreviate_venue(a) = a.
C24_AbbreviationIsFixpoint ==
    (/\ pc = "returned_again"
     /\ \A i \in Matching(venue_mappings, venue) :
            Len(venue_mappings[i][1]) <= Len(venue[2]))
        => abbreviated = venue

\* C24, amended: abbreviate_venue(a) = a exactly when a is empty, holds no
\* mapped keyword, or the first keyword of the mapping it holds is mapped
\* to a itself; in every other case abbreviate_venue(a) is the
\* abbreviation of that first keyword, which is not a.
C24_FixpointIffFirstKeywordMapsToItself ==
    pc = "returned_again" =>
        LET held == Matching(venue_mappings, venue)
        IN  IF venue = EmptyStr \/ held = {} THEN abbreviated = venue
            ELSE abbreviated
                     = venue_mappings[FirstMatching(venue_mappings, venue)][2]

\* An abbreviation that holds a keyword mapped to itself stays.
C24_Witness ==
    /\ pc = "returned_again"
    /\ venue # EmptyStr
    /\ Matching(venue_mappings, venue) # {}
    /\ abbreviated = venue
    /\ \E i \in 1..Len(venue_mappings) : venue_mappings[i][2] = venue

----------------------------------------------------------------------------
(* Order of the steps of main *)

\* The network steps in the order of lines 140, 145 and 153.
NetworkSteps == <<"fetch_auth_token", "establish_session", "fetch_events">>

\* process_events has been entered.
ProjectionStarted ==
    \/ pc \in {"process_events", "loop", "returned", "ProcessingError"}
    \/ idx > 0
    \/ formatted # Unset

\* format_events has been called.
RenderingStarted == formatted # Unset

\* main has printed something other than the help text.
OutputWritten == stdout # <<>> /\ stdout # <<sUsage>>

\* C25: in every run of main the steps happen in the order token fetch,
\* session warm-up, API call, projection, rendering, one write to stdout;
\* a step starts only after the one before it has succeeded, each network
\* call is attempted at most once, and a failed network step ends the run
\* with a non-zero exit code and no later step.
C25_StepsInOrderOnceEach ==
    /\ Len(network) <= 3
    /\ \A i \in 1..Len(network) : network[i][1] = NetworkSteps[i]
    /\ \A i \in 1..(Len(network) - 1) : network[i][2] = "ok"
    /\ pc = "fetch_events" => (Len(network) = 2 /\ network[2][2] = "ok")
    /\ pc = "establish_session" => network = <<<<"fetch_auth_token", "ok">>>>
    /\ ProjectionStarted => (FetchedOk /\ ~args.raw)
    /\ RenderingStarted =>
           /\ pc \in {"exit", "Exception"}
           /\ ~RaisesProcessingError(api_response)
           /\ Len(processed_events) + Len(warnings)
                  = Len(EventsOf(api_response))
    /\ Len(stdout) <= 1
    /\ OutputWritten =>
           /\ pc = "exit" /\ FetchedOk
           /\ args.raw \/ (IsStr(formatted) /\ stdout = <<formatted[2]>>)
    /\ (network # <<>> /\ network[Len(network)][2] # "ok") =>
           /\ pc \in {"exit"} \cup VillagesEventErrors \cup {"Exception"}
           /\ pc = "exit" => exit_code = 1
           /\ ~ProjectionStarted /\ ~RenderingStarted /\ stdout = <<>>
           /\ Len(network) < 3 => api_response = Unset

\* A run that went through all six steps.
C25_Witness ==
    /\ pc = "exit"
    /\ exit_code = 0
    /\ FetchedOk
    /\ ~args.raw
    /\ processed_events # <<>>
    /\ IsStr(formatted)
    /\ stdout = <<formatted[2]>>

----------------------------------------------------------------------------
(* The session scope and the end of the run *)

\* C26: once main has entered the session scope, the session is released
\* on every way out of it: normal completion, the early return of --raw, a
\* session or API error, a structural processing error and the renderer's
\* invalid-format error.  The session is open only while the run is
\* inside the scope or an exception is on its way out of it, and no run
\* ends with the session open.
C26_SessionReleasedOnEveryExit ==
    /\ session = "open" =>
           pc \in {"fetch_events", "fetched", "process_events", "loop",
                   "returned", "SessionError", "APIError", "ProcessingError"}
    /\ Terminated =>
           session = IF Len(network) >= 2 THEN "closed" ELSE "none"

\* The run left the session scope through the renderer's ValueError.
C26_Witness ==
    /\ pc = "exit"
    /\ session = "closed"
    /\ formatted # Unset
    /\ IsValueError(formatted)

\* The five ways out of the session scope.
LeftScopeBy(way) ==
    pc = "exit" /\ session = "closed" /\
    CASE way = "completion" -> exit_code = 0 /\ ~args.raw
      [] way = "raw"        -> exit_code = 0 /\ args.raw
      [] way = "network"    -> network[Len(network)][2] \in
                                   {"SessionError", "APIError"}
      [] way = "structure"  -> FetchedOk /\ ~args.raw
                                   /\ RaisesProcessingError(api_response)
      [] way = "format"     -> formatted # Unset /\ IsValueError(formatted)

\* C27: every run of main ends by returning an exit code in {0, 1, 2} and
\* lets no exception escape, for every content of the configuration file,
\* every command line and every outcome of the network calls.
C27_MainAlwaysReturns ==
    /\ pc # "AttributeError"
    /\ Terminated => exit_code \in {0, 1, 2}

\* The same for the runs whose configuration loaded as a dictionary.
MainReturnsWhenConfigIsDict ==
    /\ pc = "AttributeError" => ~IsMap(yaml_config)
    /\ pc = "exit" => exit_code \in {0, 1, 2}

----------------------------------------------------------------------------
(* A format outside the closed set that comes from the configuration file *)

\* The file supplies a format outside the closed set and the command line
\* has no --format.
InvalidFileFormat ==
    /\ pc \notin {"main", "get_defaults", "AttributeError"}
    /\ "format" \in DOMAIN yaml_config[2]
    /\ yaml_config[2]["format"] \notin ValidFormats
    /\ ~Given("--format")

\* The command line is accepted by the parser and is not a call for help.
CommandLineParses ==
    ParseArgs(argv, 1, DefaultArgs(yaml_config))[1] = "ok"

\* C28 as stated: with a format outside {meshtastic, json, csv, plain}
\* from the configuration file and no --format flag, the run is not
\* rejected as an argument error and ends with exit code 1 and nothing on
\* stdout.  Read here for the command lines that parse.
C28_InvalidFileFormatEndsInOne ==
    (InvalidFileFormat /\ CommandLineParses /\ pc = "exit") =>
        (exit_code = 1 /\ stdout = <<>>)

\* C28, amended: with such a file, no --format and no --raw on a command
\* line that parses, the run is not rejected as an argument error; the
\* format is handed to the renderer as the file gave it and is looked at
\* by the renderer alone, after the token fetch, the session warm-up and
\* the API call have succeeded and the events have been projected; every
\* such run ends with exit code 1 and nothing on stdout.
C28_InvalidFileFormatReachesRenderer ==
    (InvalidFileFormat /\ CommandLineParses /\ ~Given("--raw")) =>
        /\ exit_code \in {-1, 1}
        /\ stdout = <<>>
        /\ pc \notin {"parse_args"} => format_type = yaml_config[2]["format"]
        /\ formatted # Unset =>
               /\ formatted = ValueError(yaml_config[2]["format"])
               /\ FetchedOk
               /\ ~RaisesProcessingError(api_response)
        /\ pc = "exit" =>
               /\ exit_code = 1
               /\ (FetchedOk /\ ~RaisesProcessingError(api_response))
                      => formatted # Unset

\* The renderer turned the file's format down after the API had answered.
C28_Witness ==
    /\ InvalidFileFormat
    /\ ~Given("--raw")
    /\ pc = "exit"
    /\ FetchedOk
    /\ processed_events # <<>>
    /\ formatted # Unset
    /\ IsValueError(formatted)
    /\ exit_code = 1
    /\ stdout = <<>>

----------------------------------------------------------------------------
(* Elements of the events list that are not maps *)

\* The dict that maps every entry of the FieldSet to the empty string.
AllEmpty(d) ==
    /\ DictKeys(d) = Range(output_fields)
    /\ \A j \in 1..Len(d) : d[j][2] = EmptyStr
    /\ \A i, j \in 1..Len(d) : d[i][1] = d[j][1] => i = j

\* C29: an element of the events list that is not a map (a string, a
\* number, a boolean, null or a list) is neither fatal nor skipped:
\* process_events returns, and its result holds for that element, at the
\* element's place among the events that were kept, a ProjectedEvent that
\* maps every FieldSet entry to the empty string.
C29_NonMapEventProjectsToEmpty ==
    /\ pc = "ProcessingError" => RaisesProcessingError(api_response)
    /\ pc = "returned" =>
          LET evs  == EventsOf(api_response)
              kept == KeptUpTo(warnings, Len(evs))
          IN  \A i \in 1..Len(evs) :
                  ~IsMap(evs[i]) =>
                      /\ i \notin Range(warnings)
                      /\ \E k \in 1..Len(kept) :
                             /\ kept[k] = i
                             /\ k <= Len(processed_events)
                             /\ AllEmpty(processed_events[k])

\* A null before a full event: both are returned, the null as the dict of
\* empty strings.
C29_Witness ==
    /\ pc = "returned"
    /\ EventsOf(api_response) = <<Null, FullEvent>>
    /\ output_fields = <<sTitle, sLocationTitle>>
    /\ warnings = <<>>
    /\ Len(processed_events) = 2
    /\ processed_events[1]
           = << <<sTitle, EmptyStr>>, <<sLocationTitle, EmptyStr>> >>

----------------------------------------------------------------------------
(* The --config flag.  A second run is described by what main computes    *)
(* from a command line under the files, the network outcomes and the API  *)
(* response of the run at hand.                                            *)

\* The command line with every --config value replaced by path.
Repath(line, path) ==
    [i \in 1..Len(line) |->
        IF line[i][1] = "--config" THEN <<"--config", path>> ELSE line[i]]

\* The command line without its --config options.
RECURSIVE WithoutConfig(_)
WithoutConfig(line) ==
    IF line = <<>> THEN <<>>
    ELSE IF line[1][1] = "--config" THEN WithoutConfig(Tail(line))
    ELSE <<line[1]>> \o WithoutConfig(Tail(line))

\* The command lines that differ from argv in the --config path alone, and
\* the one without the flag.
ConfigVariants ==
    { Repath(argv, path) : path \in ConfigPaths } \cup {WithoutConfig(argv)}

\* The dict process_events builds for one event, from field j on.
RECURSIVE ProjectFrom(_, _, _, _, _)
ProjectFrom(ev, fields, mappings, j, d) ==
    IF j > Len(fields) THEN d
    ELSE ProjectFrom(ev, fields, mappings, j + 1,
                     DictSet(d, fields[j],
                             StoredValue(ev, fields[j], mappings)))

\* What process_events returns for a response with a list of events.
Projected(resp, fields, mappings) ==
    LET evs     == EventsOf(resp)
        skipped == { i \in 1..Len(evs) :
                       \E j \in 1..Len(fields) :
                           StoredValue(evs[i], fields[j], mappings)
                               = TypeError }
        kept    == KeptUpTo(SeqOf(skipped), Len(evs))
    IN  [k \in 1..Len(kept) |->
            ProjectFrom(evs[kept[k]], fields, mappings, 1, <<>>)]

\* What the renderer makes of the response for a parsed command line.
RenderedFor(ns, config, resp) ==
    FormatEvents(
        Projected(resp, OutputFields(config, ns.fields),
                  GetDefault(config, "venue_mappings", DefaultVenueMappings)),
        ns.format, OutputFields(config, ns.fields))

\* <<exit code, stdout>> of the run of a command line that finds the
\* configuration config, the network outcomes net and the response resp.
Outcome(line, config, net, resp) ==
    LET parsed == ParseArgs(line, 1, DefaultArgs(config))
    IN  IF parsed[1] = "SystemExit"
        THEN IF parsed[2] = 0 THEN <<0, <<sUsage>>>> ELSE <<2, <<>>>>
        ELSE IF net[Len(net)][2] # "ok" THEN <<1, <<>>>>
        ELSE IF parsed[2].raw THEN <<0, <<JsonDump(resp, 0) \o <<"\n">>>>>>
        ELSE IF RaisesProcessingError(resp) THEN <<1, <<>>>>
        ELSE IF IsValueError(RenderedFor(parsed[2], config, resp))
        THEN <<1, <<>>>>
        ELSE <<0, <<RenderedFor(parsed[2], config, resp)[2]>>>>

====
